---- MODULE Spec2Model ----
(***************************************************************************)
(* Pricing, promotions, checkout and order settlement of the perfume /     *)
(* pigment store backend (store/models.py, store/views.py,                 *)
(* store/serializers.py, store/admin.py, adminpanel/views.py).             *)
(*                                                                         *)
(* Money is a Decimal with two places in the code; the model keeps it as   *)
(* an integer number of hundredths (500.00 is 50000).  A nullable column   *)
(* or an argument that was not supplied is NULL.                           *)
(***************************************************************************)
EXTENDS Integers, Sequences, FiniteSets, TLC

VARIABLES
    orders,      \* the Order table: id -> row
    account,     \* the LoyaltyAccount row of the (single) customer
    ledger,      \* the LoyaltyTransaction table, in insertion order
    lastPaid,    \* history: the order the latest requests marked paid by webhook, and how many in a row
    procs,       \* concurrent requests that save an order: their position and locals
    opCount,     \* history: number of concurrent requests started so far
    products,    \* the Perfume and Pigment tables: id -> row
    promos,      \* the Promotion table: id -> row, with its members
    now,         \* timezone.now()
    quoted,      \* history: the latest price handed out, for which product and when
    manual,      \* history: per product, the discount (if any) an admin set by hand and no later apply or bulk clear replaced
    lastOp,      \* history: whether the latest request was a clear_discounts, of which promotion, and the products it found
    cartItems,   \* the CartItem table: user -> the line in that user's cart (quantity 0: deleted)
    orderItems,  \* the OrderItem table, in insertion order
    checkouts,   \* checkout requests: their position and locals
    stockAtStart, \* history: stock_quantity of each product before any checkout
    adjusts,     \* user_loyalty_update requests: their position and locals
    options,     \* the VolumeOption and WeightOption tables: id -> row
    optionSaves, \* saves of a variant in progress: their position and the instance
    seen,        \* the order page an admin has open: the order and its updated_at
    brands,      \* the ids of the Brand rows
    categories   \* the ids of the Category rows

orderVars == <<orders, account, ledger, lastPaid, procs, opCount>>
catalogVars == <<products, promos, now, quoted, manual, lastOp>>
checkoutVars == <<cartItems, orderItems, checkouts, stockAtStart>>
adminVars == <<adjusts, options, optionSaves, seen, brands, categories>>
vars == <<orderVars, catalogVars, checkoutVars, adminVars>>

NULL == 0 - 1

Max(a, b) == IF a >= b THEN a ELSE b

\* ---------------------------------------------------------------- bounds
NumOrders == 1      \* orders that are ever created
MaxOps == 3         \* concurrent requests that are ever started

OrderIds == 1..NumOrders
Procs == {1, 2}

\* ------------------------------------------------------- program constants
EarnRatePercent == 5    \* earn_rate = Decimal('0.05')
Hundredths == 100       \* DecimalField(decimal_places=2)

Statuses == {"pending", "paid", "processing", "shipped", "delivered", "cancelled"}

\* allowed_transitions of order_status_update
AllowedTransitions ==
    [s \in Statuses |->
        CASE s = "pending"    -> {"paid", "processing", "cancelled"}
          [] s = "paid"       -> {"processing", "shipped", "cancelled"}
          [] s = "processing" -> {"shipped", "cancelled"}
          [] s = "shipped"    -> {"delivered"}
          [] s = "delivered"  -> {}
          [] s = "cancelled"  -> {}]

\* ------------------------------------------------------------ input sets
\* (subtotal, loyalty_discount, loyalty_points_used, delivery_cost) an order is
\* created with: 10.00 with nothing else supplied earns nothing; 500.00 less
\* 50.00 plus 30.00 delivery totals 480.00 and earns 22 points; a discount
\* above subtotal plus delivery makes the raw total negative.
OrderAmounts ==
    {<<1000, NULL, 0, NULL>>, <<50000, 5000, 50, 3000>>, <<50000, 60000, 600, 3000>>}
UpdatedDeliveryCosts == {3000}
InitialRedeemed == {100}       \* lifetime_redeemed of the account at the start

\* ------------------------------------------------------------ Order.save
\* A new Order instance as Order(user=..., subtotal=..., **validated_data)
\* builds it: the model's field defaults for everything not supplied.
NewOrder(subtotal, delivery_cost, loyalty_discount, loyalty_points_used) ==
    [status |-> "pending",
     subtotal |-> subtotal,
     delivery_cost |-> delivery_cost,
     loyalty_discount |-> loyalty_discount,
     loyalty_points_used |-> loyalty_points_used,
     loyalty_points_earned |-> 0,
     loyalty_awarded |-> FALSE,
     loyalty_refunded |-> FALSE,
     total |-> NULL,
     tracking_number |-> "",
     updated_at |-> NULL]

\* The store the loyalty logic works on, passed through the operators below.
Store == [orders |-> orders, account |-> account, ledger |-> ledger]

Put(f, k, v) == [x \in (DOMAIN f) \cup {k} |-> IF x = k THEN v ELSE f[x]]

\* "Нормализуем суммы" and the recomputation of total.
NormalizeAmounts_NoClamp(obj) ==
    LET dc == IF obj.delivery_cost = NULL THEN 0 ELSE obj.delivery_cost
        ld == IF obj.loyalty_discount = NULL THEN 0 ELSE obj.loyalty_discount
    IN  [obj EXCEPT !.delivery_cost = dc, !.loyalty_discount = ld,
                    !.total = obj.subtotal - ld + dc]

NormalizeAmounts(obj) ==
    LET dc == IF obj.delivery_cost = NULL \/ obj.delivery_cost = 0
              THEN 0 ELSE obj.delivery_cost
        ld == IF obj.loyalty_discount = NULL \/ obj.loyalty_discount = 0
              THEN 0 ELSE obj.loyalty_discount
        raw == obj.subtotal - ld + dc
    IN  [obj EXCEPT !.delivery_cost = dc, !.loyalty_discount = ld,
                    !.total = IF raw < 0 THEN 0 ELSE raw]

ShouldAward_IgnoreFlags(obj, previous_awarded) ==
    obj.status \in {"paid", "delivered"}

ShouldAward(obj, previous_awarded) ==
    /\ obj.status \in {"paid", "delivered"}
    /\ ~previous_awarded
    /\ ~obj.loyalty_awarded

ShouldRefund(obj, previous_refunded) ==
    /\ obj.status = "cancelled"
    /\ obj.loyalty_points_used > 0
    /\ ~previous_refunded
    /\ ~obj.loyalty_refunded

\* The points of an award computed on the subtotal alone.
EarnedPoints_IgnoreDiscount(obj) ==
    (Max(obj.subtotal, 0) * EarnRatePercent) \div (100 * Hundredths)

\* int((base_amount * earn_rate).quantize(Decimal('1'), rounding=ROUND_DOWN))
EarnedPoints(obj) ==
    LET base_amount == Max(obj.subtotal - obj.loyalty_discount, 0)
    IN  (base_amount * EarnRatePercent) \div (100 * Hundredths)

\* Order.objects.filter(pk=self.pk).update(loyalty_points_earned=...,
\* loyalty_awarded=True): changes the stored row, if there is one.
SetAwarded(os, id, earned_points) ==
    IF id \in DOMAIN os
    THEN [os EXCEPT ![id].loyalty_points_earned = earned_points,
                    ![id].loyalty_awarded = TRUE]
    ELSE os

\* Order.objects.filter(pk=self.pk).update(loyalty_refunded=True)
SetRefunded(os, id) ==
    IF id \in DOMAIN os THEN [os EXCEPT ![id].loyalty_refunded = TRUE] ELSE os

\* The "if should_award:" block, inside the account's row lock.
AwardPoints(st, id, obj) ==
    LET earned_points == EarnedPoints(obj)
        acc == IF earned_points > 0
               THEN [st.account EXCEPT !.balance = @ + earned_points,
                                       !.lifetime_earned = @ + earned_points]
               ELSE st.account
        led == IF earned_points > 0
               THEN Append(st.ledger,
                           [type |-> "earn", order |-> id, points |-> earned_points,
                            balance_after |-> acc.balance])
               ELSE st.ledger
    IN  [orders |-> SetAwarded(st.orders, id, earned_points),
         account |-> acc, ledger |-> led]

\* The "if should_refund:" block, inside the same lock.
RefundPoints(st, id, obj) ==
    LET refund_points == obj.loyalty_points_used
        acc == [st.account EXCEPT
                    !.balance = @ + refund_points,
                    !.lifetime_redeemed = Max(@ - refund_points, 0)]
        led == Append(st.ledger,
                      [type |-> "refund", order |-> id, points |-> refund_points,
                       balance_after |-> acc.balance])
    IN  [orders |-> SetRefunded(st.orders, id),
         account |-> acc, ledger |-> led]

\* Order.save, first part: the flags of the stored row, read before the write
\* (the instance's own flags when there is no stored row yet).
PreviousFlags(st, id, obj) ==
    IF id \in DOMAIN st.orders
    THEN [awarded |-> st.orders[id].loyalty_awarded,
          refunded |-> st.orders[id].loyalty_refunded]
    ELSE [awarded |-> obj.loyalty_awarded, refunded |-> obj.loyalty_refunded]

\* Order.save, second part: super().save() writes every field of the
\* instance, updated_at (auto_now) with the time of the write.
WriteOrder(st, id, obj) ==
    [st EXCEPT !.orders = Put(st.orders, id,
                              [NormalizeAmounts(obj) EXCEPT !.updated_at = now])]

\* Order.save, third part: award or refund after the row was written.  The
\* instance's own flags are not refreshed by the targeted updates.
SettleLoyalty(st, id, obj, prev) ==
    LET should_award == ShouldAward(obj, prev.awarded)
        should_refund == ShouldRefund(obj, prev.refunded)
        st1 == IF should_award THEN AwardPoints(st, id, obj) ELSE st
    IN  IF should_refund THEN RefundPoints(st1, id, obj) ELSE st1

\* Order.save as one call.
OrderSave(st, id, obj) ==
    LET prev == PreviousFlags(st, id, obj)
        st1 == WriteOrder(st, id, obj)
    IN  SettleLoyalty(st1, id, NormalizeAmounts(obj), prev)

Commit(st) ==
    /\ orders' = st.orders
    /\ account' = st.account
    /\ ledger' = st.ledger

\* --------------------------------------------------------------- catalogue
ProductIds == {1, 2}        \* 1 is a Perfume, 2 is a Pigment
PromoIds == {1, 2}          \* promotions that ever exist
BrandIds == {1, 2, 3}       \* 1 is the perfume's brand, 2 the pigment's, 3 has no product
CategoryIds == {1, 2, 3}    \* likewise for the categories
MaxNow == 4                 \* the clock stops here

Times == 1..MaxNow

\* The columns of a Perfume / Pigment row the discount and stock code touches;
\* size is volume_ml of a perfume and weight_gr of a pigment.
NewProduct(kind, brand, category, price, stock_quantity) ==
    [kind |-> kind,
     brand |-> brand,
     category |-> category,
     size |-> 50,
     price |-> price,
     discount_percentage |-> 0,
     discount_price |-> NULL,
     discount_start_date |-> NULL,
     discount_end_date |-> NULL,
     discount_source |-> NULL,
     in_stock |-> TRUE,
     stock_quantity |-> stock_quantity]

\* One perfume at 100.00 and one pigment at 80.00, of different brands and
\* categories, one unit of each on the shelf.
Catalogue ==
    [i \in ProductIds |->
        IF i = 1 THEN NewProduct("perfume", 1, 1, 10000, 1)
                 ELSE NewProduct("pigment", 2, 2, 8000, 1)]

\* The four discount columns of a row, as a form or a promotion sets them.
Discount(discount_percentage, discount_price, discount_start_date, discount_end_date) ==
    [discount_percentage |-> discount_percentage,
     discount_price |-> discount_price,
     discount_start_date |-> discount_start_date,
     discount_end_date |-> discount_end_date]

DiscountOf(row) ==
    Discount(row.discount_percentage, row.discount_price,
             row.discount_start_date, row.discount_end_date)

WithDiscount(row, d) ==
    [row EXCEPT !.discount_percentage = d.discount_percentage,
                !.discount_price = d.discount_price,
                !.discount_start_date = d.discount_start_date,
                !.discount_end_date = d.discount_end_date]

\* A price is returned as a Decimal that may carry four places
\* (price * (percentage / Decimal('100'))): results are in ten-thousandths.
Exact(amount) == amount * Hundredths

\* Perfume.is_on_sale / Pigment.is_on_sale at time t.
IsOnSale(self, t) ==
    IF self.discount_start_date # NULL /\ self.discount_end_date # NULL
    THEN self.discount_start_date <= t /\ t <= self.discount_end_date
    ELSE IF self.discount_start_date # NULL
    THEN self.discount_start_date <= t
    ELSE IF self.discount_end_date # NULL
    THEN t <= self.discount_end_date
    ELSE \/ self.discount_percentage > 0
         \/ (self.discount_price # NULL /\ self.discount_price > 0)

\* Perfume.get_discounted_price at time t, had the percentage been tested
\* before the fixed price.
PerfumeGetDiscountedPrice_PercentFirst(self, t) ==
    IF /\ self.discount_start_date # NULL /\ self.discount_end_date # NULL
       /\ ~(self.discount_start_date <= t /\ t <= self.discount_end_date)
    THEN Exact(self.price)
    ELSE IF /\ ~(self.discount_start_date # NULL /\ self.discount_end_date # NULL)
            /\ self.discount_start_date # NULL /\ self.discount_start_date > t
    THEN Exact(self.price)
    ELSE IF /\ ~(self.discount_start_date # NULL /\ self.discount_end_date # NULL)
            /\ ~(self.discount_start_date # NULL /\ self.discount_start_date > t)
            /\ self.discount_end_date # NULL /\ self.discount_end_date < t
    THEN Exact(self.price)
    ELSE IF self.discount_percentage > 0
    THEN Exact(self.price) - self.price * self.discount_percentage
    ELSE IF self.discount_price # NULL /\ self.discount_price # 0 /\ self.discount_price > 0
    THEN Exact(self.discount_price)
    ELSE Exact(self.price)

\* Perfume.get_discounted_price at time t.
PerfumeGetDiscountedPrice(self, t) ==
    IF /\ self.discount_start_date # NULL /\ self.discount_end_date # NULL
       /\ ~(self.discount_start_date <= t /\ t <= self.discount_end_date)
    THEN Exact(self.price)
    ELSE IF /\ ~(self.discount_start_date # NULL /\ self.discount_end_date # NULL)
            /\ self.discount_start_date # NULL /\ self.discount_start_date > t
    THEN Exact(self.price)
    ELSE IF /\ ~(self.discount_start_date # NULL /\ self.discount_end_date # NULL)
            /\ ~(self.discount_start_date # NULL /\ self.discount_start_date > t)
            /\ self.discount_end_date # NULL /\ self.discount_end_date < t
    THEN Exact(self.price)
    ELSE IF self.discount_price # NULL /\ self.discount_price # 0 /\ self.discount_price > 0
    THEN Exact(self.discount_price)
    ELSE IF self.discount_percentage > 0
    THEN Exact(self.price) - self.price * self.discount_percentage
    ELSE Exact(self.price)

\* Pigment.get_discounted_price at time t.
PigmentGetDiscountedPrice(self, t) ==
    IF /\ self.discount_start_date # NULL /\ self.discount_end_date # NULL
       /\ ~(self.discount_start_date <= t /\ t <= self.discount_end_date)
    THEN Exact(self.price)
    ELSE IF /\ ~(self.discount_start_date # NULL /\ self.discount_end_date # NULL)
            /\ self.discount_start_date # NULL /\ self.discount_start_date > t
    THEN Exact(self.price)
    ELSE IF /\ ~(self.discount_start_date # NULL /\ self.discount_end_date # NULL)
            /\ ~(self.discount_start_date # NULL /\ self.discount_start_date > t)
            /\ self.discount_end_date # NULL /\ self.discount_end_date < t
    THEN Exact(self.price)
    ELSE IF self.discount_price # NULL /\ self.discount_price # 0 /\ self.discount_price > 0
    THEN Exact(self.discount_price)
    ELSE IF self.discount_percentage > 0
    THEN Exact(self.price) - self.price * self.discount_percentage
    ELSE Exact(self.price)

\* product.get_discounted_price() of whichever model the row belongs to.
GetDiscountedPrice(self, t) ==
    IF self.kind = "perfume" THEN PerfumeGetDiscountedPrice(self, t)
                             ELSE PigmentGetDiscountedPrice(self, t)

\* --------------------------------------------------------------- promotions
PromoTypes == {"brand", "category", "manual", "all"}

\* A Promotion row with its perfumes / pigments members.
NewPromotion(promo_type, brand, category, d) ==
    [promo_type |-> promo_type,
     brand |-> brand,
     category |-> category,
     members |-> {},
     active |-> FALSE,
     discount_percentage |-> d.discount_percentage,
     discount_price |-> d.discount_price,
     start_at |-> d.discount_start_date,
     end_at |-> d.discount_end_date]

\* The promotion that exists from the start: 20% off, open-ended, for the
\* perfume's brand, for the perfume's category or for every product.
SeedPromotions ==
    {NewPromotion(type, 1, 1, Discount(20, NULL, NULL, NULL)) :
        type \in {"brand", "category", "all"}}

\* What an admin posts in DiscountBulkForm, where an empty percentage is
\* allowed: 30% from time 2 to time 3, or a fixed 90.00 (above the pigment's
\* price) with no dates.
DiscountForms == {Discount(30, NULL, 2, 3), Discount(NULL, 9000, NULL, NULL)}

\* The same two discounts posted in PerfumeForm / PigmentForm, where the
\* percentage is required.
ProductForms == {Discount(30, NULL, 2, 3), Discount(0, 9000, NULL, NULL)}

ItemSelections == SUBSET ProductIds

CatalogStore == [products |-> products, promos |-> promos]

\* Promotion._product_queryset: the ids of the rows of both querysets.
ProductQueryset(self, rows) ==
    LET all == DOMAIN rows
        byBrand == IF self.promo_type = "brand" /\ self.brand # NULL
                   THEN {i \in all : rows[i].brand = self.brand} ELSE all
        byCategory == IF self.promo_type = "category" /\ self.category # NULL
                      THEN {i \in byBrand : rows[i].category = self.category} ELSE byBrand
    IN  IF self.promo_type = "manual" THEN self.members ELSE byCategory

\* Promotion.apply_discounts of promotion k at time t, had it passed over
\* the targets that carry a discount already.
ApplyDiscounts_KeepExisting(cs, k, t) ==
    LET self == cs.promos[k]
        qs == {i \in ProductQueryset(self, cs.products) :
                  DiscountOf(cs.products[i]) = Discount(0, NULL, NULL, NULL)}
        start == IF self.start_at # NULL THEN self.start_at ELSE t
        d == Discount(self.discount_percentage, self.discount_price, start, self.end_at)
    IN  [products |-> [i \in DOMAIN cs.products |->
                          IF i \in qs
                          THEN [WithDiscount(cs.products[i], d) EXCEPT !.discount_source = k]
                          ELSE cs.products[i]],
         promos |-> [cs.promos EXCEPT ![k].active = TRUE]]

\* Promotion.apply_discounts of promotion k at time t.
ApplyDiscounts(cs, k, t) ==
    LET self == cs.promos[k]
        qs == ProductQueryset(self, cs.products)
        start == IF self.start_at # NULL THEN self.start_at ELSE t
        d == Discount(self.discount_percentage, self.discount_price, start, self.end_at)
    IN  [products |-> [i \in DOMAIN cs.products |->
                          IF i \in qs
                          THEN [WithDiscount(cs.products[i], d) EXCEPT !.discount_source = k]
                          ELSE cs.products[i]],
         promos |-> [cs.promos EXCEPT ![k].active = TRUE]]

Neutral == Discount(0, NULL, NULL, NULL)

\* Promotion.clear_discounts of promotion k, resetting every product.
ClearDiscounts_AnySource(cs, k) ==
    [products |-> [i \in DOMAIN cs.products |->
                      [WithDiscount(cs.products[i], Neutral) EXCEPT !.discount_source = NULL]],
     promos |-> [cs.promos EXCEPT ![k].active = FALSE]]

\* Promotion.clear_discounts of promotion k.
ClearDiscounts(cs, k) ==
    LET qs == {i \in DOMAIN cs.products : cs.products[i].discount_source = k}
    IN  [products |-> [i \in DOMAIN cs.products |->
                          IF i \in qs
                          THEN [WithDiscount(cs.products[i], Neutral) EXCEPT !.discount_source = NULL]
                          ELSE cs.products[i]],
         promos |-> [cs.promos EXCEPT ![k].active = FALSE]]

\* DiscountBulkForm.clean for the posted action and fields.
DiscountBulkFormValid(action, form) ==
    LET percent == form.discount_percentage
        price == form.discount_price
        start == form.discount_start_date
        end == form.discount_end_date
    IN  action = "apply" =>
            /\ ~((percent = NULL \/ percent = 0) /\ (price = NULL \/ price = 0))
            /\ ~(percent # NULL /\ (percent < 0 \/ percent > 100))
            /\ ~(price # NULL /\ price <= 0)
            /\ ~(start # NULL /\ end # NULL /\ end < start)

\* form.cleaned_data.get("discount_percentage") or 0
PercentOrZero(form) ==
    IF form.discount_percentage = NULL THEN 0 ELSE form.discount_percentage

\* PerfumeForm.clean / PigmentForm.clean for a row posted back with new
\* discount fields.
ProductFormValid(row, form) ==
    ~(/\ row.price # NULL /\ form.discount_price # NULL /\ form.discount_price > 0
      /\ form.discount_price >= row.price)

\* --------------------------------------------------------------- initial
NotPaid == [id |-> 0, n |-> 0]
PaidAgain(id) == [id |-> id, n |-> IF lastPaid.id = id THEN 2 ELSE 1]
IdleProcs == [p \in Procs |-> [pc |-> "idle", id |-> 0, obj |-> NULL, prev |-> NULL]]

NoQuote == [product |-> 0, option |-> NULL, at |-> 0, price |-> 0, is_on_sale |-> FALSE]
NoOp == [op |-> "none", promo |-> 0, claimed |-> {}, replaced |-> {}]
IdleCheckouts == [u \in Procs |-> [pc |-> "idle", items_data |-> <<>>, i |-> 0,
                                   order_items |-> <<>>, subtotal |-> 0, order |-> 0]]

InitOrders ==
    /\ orders = <<>>
    /\ account \in {[balance |-> 0, lifetime_earned |-> 0, lifetime_redeemed |-> r] :
                      r \in InitialRedeemed}
    /\ ledger = <<>>
    /\ lastPaid = NotPaid
    /\ procs = IdleProcs
    /\ opCount = 0

\* The catalogue with no discount anywhere and the seed promotion of the
\* given type, not yet applied.
InitCatalog(types) ==
    /\ products = Catalogue
    /\ promos \in {[k \in {1} |-> seed] : seed \in {s \in SeedPromotions : s.promo_type \in types}}
    /\ now = 1
    /\ quoted = NoQuote
    /\ manual = [i \in ProductIds |-> {}]
    /\ lastOp = NoOp

\* A CartItem row: the product, the selected variant if any, the quantity;
\* a deleted row keeps its place with quantity 0.
CartLine(product, option, quantity) ==
    [product |-> product, option |-> option, quantity |-> quantity]

\* Each user has one of the given carts.
InitCheckouts(carts) ==
    /\ cartItems \in [Procs -> carts]
    /\ orderItems = <<>>
    /\ checkouts = IdleCheckouts
    /\ stockAtStart = [i \in ProductIds |-> products[i].stock_quantity]

\* ------------------------------------------- variants and admin pages
OptionIds == {1, 2}

\* A VolumeOption / WeightOption row: the variant of a product with its own
\* price and stock.
NewOption(product, size, price, stock_quantity, is_default) ==
    [product |-> product,
     size |-> size,
     price |-> price,
     discount_percentage |-> 0,
     discount_price |-> NULL,
     stock_quantity |-> stock_quantity,
     in_stock |-> stock_quantity > 0,
     is_default |-> is_default]

\* Two variants of one product: the first at 60.00 with three units, the
\* second at 90.00 and sold out.
SeedOptions(product, defaults) ==
    [v \in OptionIds |->
        IF v = 1 THEN NewOption(product, 30, 6000, 3, 1 \in defaults)
                 ELSE NewOption(product, 100, 9000, 0, 2 \in defaults)]

IdleAdjusts == [a \in Procs |-> [pc |-> "idle", points |-> 0, loyalty |-> NULL]]
IdleOptionSaves == [p \in Procs |-> [pc |-> "idle", id |-> 0, obj |-> NULL]]
NoPage == [id |-> 0, updated_at |-> 0, order |-> <<>>]

InitAdmin ==
    /\ adjusts = IdleAdjusts
    /\ options = SeedOptions(1, {1})
    /\ optionSaves = IdleOptionSaves
    /\ seen = NoPage
    /\ brands = BrandIds
    /\ categories = CategoryIds

Init ==
    /\ InitOrders
    /\ InitCatalog({"brand"})
    /\ InitCheckouts({<<CartLine(1, NULL, 1)>>})
    /\ InitAdmin

\* ------------------------------------------- requests, one at a time
\* Order.objects.create(user=user, subtotal=subtotal, **validated_data)
OrderCreate(amounts) ==
    LET id == Cardinality(DOMAIN orders) + 1
    IN  /\ id \in OrderIds
        /\ Commit(OrderSave(Store, id, NewOrder(amounts[1], amounts[4], amounts[2], amounts[3])))
        /\ lastPaid' = NotPaid
        /\ UNCHANGED <<procs, opCount, catalogVars, checkoutVars, adminVars>>

\* yookassa_webhook with a succeeded, paid notification for order id.
YookassaWebhook(id) ==
    /\ id \in DOMAIN orders
    /\ LET order == [orders[id] EXCEPT !.status = "paid"]
       IN  Commit(OrderSave(Store, id, order))
    /\ lastPaid' = PaidAgain(id)
    /\ UNCHANGED <<procs, opCount, catalogVars, checkoutVars, adminVars>>

\* tinkoff_notification with a CONFIRMED, successful notification for order id.
TinkoffNotification(id) ==
    /\ id \in DOMAIN orders
    /\ LET order == [orders[id] EXCEPT !.status = "paid"]
       IN  Commit(OrderSave(Store, id, order))
    /\ lastPaid' = PaidAgain(id)
    /\ UNCHANGED <<procs, opCount, catalogVars, checkoutVars, adminVars>>

\* create_yookassa_payment / create_tinkoff_payment after the provider accepted
\* the payment: payment_id and payment_method are set and the order is saved.
CreatePayment(id) ==
    /\ id \in DOMAIN orders
    /\ Commit(OrderSave(Store, id, orders[id]))
    /\ lastPaid' = NotPaid
    /\ UNCHANGED <<procs, opCount, catalogVars, checkoutVars, adminVars>>

\* create_delivery_order when the carrier accepted the shipment.
CreateDeliveryOrder(id, tracking) ==
    /\ id \in DOMAIN orders
    /\ orders[id].status \in {"paid", "processing"}
    /\ orders[id].tracking_number = ""
    /\ LET order == [orders[id] EXCEPT !.tracking_number = tracking,
                                       !.status = "shipped"]
       IN  Commit(OrderSave(Store, id, order))
    /\ lastPaid' = NotPaid
    /\ UNCHANGED <<procs, opCount, catalogVars, checkoutVars, adminVars>>

\* OrderStatusForm(request.POST, instance=order).is_valid(): a ModelForm's
\* validation ends in construct_instance, which assigns the cleaned fields
\* (status, admin_notes, tracking_number) to the instance it was given.
\* admin_notes is free text that nothing reads; the model leaves it out.
OrderStatusFormClean(order, post) ==
    [order EXCEPT !.status = post.status,
                  !.tracking_number = post.tracking_number]

\* The outcome of order_status_update for a POST without updated_at:
\* the store afterwards.  current_status is read from the instance after
\* is_valid() has run.
OrderStatusUpdateResult(st, id, post) ==
    LET order == OrderStatusFormClean(st.orders[id], post)
        new_status == post.status
        current_status == order.status
    IN  IF new_status # current_status
           /\ new_status \notin AllowedTransitions[current_status]
        THEN st
        ELSE OrderSave(st, id, order)

OrderStatusUpdate(id, post) ==
    /\ id \in DOMAIN orders
    /\ Commit(OrderStatusUpdateResult(Store, id, post))
    /\ lastPaid' = NotPaid
    /\ UNCHANGED <<procs, opCount, catalogVars, checkoutVars, adminVars>>

\* The POSTs of the status form for an order: any status, the tracking number
\* left as the form showed it.
StatusPosts(id) ==
    [status : Statuses, tracking_number : {orders[id].tracking_number}]

\* OrderAdmin.mark_as_paid / _processing / _shipped / _delivered / _cancelled:
\* queryset.update(status=...) on the selected orders, without Order.save.
OrderAdminMarkAs(selected, status) ==
    /\ selected # {}
    /\ selected \subseteq DOMAIN orders
    /\ orders' = [id \in DOMAIN orders |->
                    IF id \in selected THEN [orders[id] EXCEPT !.status = status]
                    ELSE orders[id]]
    /\ lastPaid' = NotPaid
    /\ UNCHANGED <<account, ledger, procs, opCount, catalogVars, checkoutVars, adminVars>>

\* OrderViewSet.update / partial_update through OrderSerializer, whose writable
\* fields include status and delivery_cost.
CustomerOrderUpdate(id, status, delivery_cost) ==
    /\ id \in DOMAIN orders
    /\ LET order == [orders[id] EXCEPT !.status = status,
                                       !.delivery_cost = delivery_cost]
       IN  Commit(OrderSave(Store, id, order))
    /\ lastPaid' = NotPaid
    /\ UNCHANGED <<procs, opCount, catalogVars, checkoutVars, adminVars>>

Next ==
    \/ \E a \in OrderAmounts : OrderCreate(a)
    \/ \E id \in OrderIds : YookassaWebhook(id)
    \/ \E id \in OrderIds : TinkoffNotification(id)
    \/ \E id \in OrderIds : CreatePayment(id)
    \/ \E id \in OrderIds : CreateDeliveryOrder(id, "TRK")
    \/ \E id \in DOMAIN orders : \E post \in StatusPosts(id) : OrderStatusUpdate(id, post)
    \/ \E sel \in SUBSET OrderIds, s \in Statuses \ {"pending"} : OrderAdminMarkAs(sel, s)
    \/ \E id \in OrderIds, s \in Statuses, d \in UpdatedDeliveryCosts :
            CustomerOrderUpdate(id, s, d)

Spec == Init /\ [][Next]_vars

\* ------------------------------------------- requests running concurrently
\* Each request is one thread: it loads the order, changes the instance and
\* calls Order.save, whose three parts (read the stored flags, write the row,
\* settle loyalty under the account lock) are separate database accesses.
Begin(p, id, obj) ==
    /\ procs[p].pc = "idle"
    /\ opCount < MaxOps
    /\ id \in DOMAIN orders
    /\ procs' = [procs EXCEPT ![p] = [pc |-> "loaded", id |-> id, obj |-> obj,
                                      prev |-> NULL]]
    /\ opCount' = opCount + 1
    /\ lastPaid' = NotPaid
    /\ UNCHANGED <<orders, account, ledger, catalogVars, checkoutVars, adminVars>>

\* yookassa_webhook / tinkoff_notification: Order.objects.get, status = 'paid'.
WebhookBegin(p, id) ==
    /\ id \in DOMAIN orders
    /\ Begin(p, id, [orders[id] EXCEPT !.status = "paid"])

\* create_yookassa_payment / create_tinkoff_payment: Order.objects.get; only
\* payment_id and payment_method are changed on the instance.
PaymentBegin(p, id) ==
    /\ id \in DOMAIN orders
    /\ Begin(p, id, orders[id])

\* order_status_update: get_object_or_404, then the form assigns the posted
\* fields; the transition check compares the instance with itself and passes.
StatusUpdateBegin(p, id, post) ==
    /\ id \in DOMAIN orders
    /\ LET order == OrderStatusFormClean(orders[id], post)
       IN  /\ ~(post.status # order.status
                  /\ post.status \notin AllowedTransitions[order.status])
           /\ Begin(p, id, order)

\* Order.save: previous = Order.objects.only(...).get(pk=self.pk)
SaveReadPrevious(p) ==
    /\ procs[p].pc = "loaded"
    /\ procs' = [procs EXCEPT ![p].pc = "read",
                              ![p].prev = PreviousFlags(Store, procs[p].id, procs[p].obj)]
    /\ UNCHANGED <<orders, account, ledger, lastPaid, opCount, catalogVars, checkoutVars, adminVars>>

\* Order.save: the amounts are normalised on the instance, super().save()
SaveWrite(p) ==
    /\ procs[p].pc = "read"
    /\ Commit(WriteOrder(Store, procs[p].id, procs[p].obj))
    /\ procs' = [procs EXCEPT ![p].pc = "written",
                              ![p].obj = NormalizeAmounts(procs[p].obj)]
    /\ UNCHANGED <<lastPaid, opCount, catalogVars, checkoutVars, adminVars>>

\* Order.save: the award / refund transaction; the request ends.
SaveSettle(p) ==
    /\ procs[p].pc = "written"
    /\ Commit(SettleLoyalty(Store, procs[p].id, procs[p].obj, procs[p].prev))
    /\ procs' = [procs EXCEPT ![p] = IdleProcs[p]]
    /\ UNCHANGED <<lastPaid, opCount, catalogVars, checkoutVars, adminVars>>

NextConc ==
    \/ \E a \in OrderAmounts : OrderCreate(a)
    \/ \E p \in Procs, id \in OrderIds : WebhookBegin(p, id)
    \/ \E p \in Procs, id \in OrderIds : PaymentBegin(p, id)
    \/ \E p \in Procs, id \in DOMAIN orders : \E post \in StatusPosts(id) :
            StatusUpdateBegin(p, id, post)
    \/ \E p \in Procs : SaveReadPrevious(p)
    \/ \E p \in Procs : SaveWrite(p)
    \/ \E p \in Procs : SaveSettle(p)

SpecConc == Init /\ [][NextConc]_vars

\* ------------------------------------------- catalogue and promotion requests
CommitCatalog(cs) ==
    /\ products' = cs.products
    /\ promos' = cs.promos

\* timezone.now() moves on.
Tick ==
    /\ now < MaxNow
    /\ now' = now + 1
    /\ UNCHANGED <<products, promos, quoted, manual, lastOp, orderVars, checkoutVars, adminVars>>

\* ProductViewSet.list computes final_price and is_on_sale of a product.
PriceQuote(i) ==
    /\ quoted' = [product |-> i, option |-> NULL, at |-> now,
                  price |-> GetDiscountedPrice(products[i], now),
                  is_on_sale |-> IsOnSale(products[i], now)]
    /\ UNCHANGED <<products, promos, now, manual, lastOp, orderVars, checkoutVars, adminVars>>

\* The hand-set discounts that survive apply_discounts of promotion self.
Overwritten(self, rows) ==
    [i \in ProductIds |-> IF i \in ProductQueryset(self, rows) THEN {} ELSE manual[i]]

\* PromotionViewSet.activate
PromotionActivate(k) ==
    /\ k \in DOMAIN promos
    /\ CommitCatalog(ApplyDiscounts(CatalogStore, k, now))
    /\ manual' = Overwritten(promos[k], products)
    /\ lastOp' = [op |-> "apply", promo |-> k,
                  claimed |-> {i \in ProductIds : products[i].discount_source = k},
                  replaced |-> {i \in ProductQueryset(promos[k], products) :
                                  /\ products[i].discount_source # k
                                  /\ DiscountOf(products[i]) # Neutral}]
    /\ UNCHANGED <<now, quoted, orderVars, checkoutVars, adminVars>>

\* PromotionViewSet.update / partial_update of a manual promotion with a new
\* list of products: the serializer saves the promotion and replaces its
\* members; no product row is written.  Members are read only for manual
\* promotions, so only their edits, to a list that is not empty, are
\* modelled.
PromotionUpdate(k, items) ==
    /\ k \in DOMAIN promos
    /\ promos[k].promo_type = "manual"
    /\ items # {}
    /\ promos' = [promos EXCEPT ![k].members = items]
    /\ lastOp' = NoOp
    /\ UNCHANGED <<products, now, quoted, manual, orderVars, checkoutVars, adminVars>>

\* PromotionViewSet.deactivate
PromotionDeactivate(k) ==
    /\ k \in DOMAIN promos
    /\ CommitCatalog(ClearDiscounts(CatalogStore, k))
    /\ lastOp' = [op |-> "clear", promo |-> k,
                  claimed |-> {i \in ProductIds : products[i].discount_source = k},
                  replaced |-> {}]
    /\ UNCHANGED <<now, quoted, manual, orderVars, checkoutVars, adminVars>>

\* discount_manage with action=deactivate_promo: clear_discounts, then the
\* promotion is saved inactive.
DiscountManageDeactivatePromo(k) ==
    /\ k \in DOMAIN promos
    /\ LET cs == ClearDiscounts(CatalogStore, k)
       IN  CommitCatalog([cs EXCEPT !.promos[k].active = FALSE])
    /\ lastOp' = [op |-> "clear", promo |-> k,
                  claimed |-> {i \in ProductIds : products[i].discount_source = k},
                  replaced |-> {}]
    /\ UNCHANGED <<now, quoted, manual, orderVars, checkoutVars, adminVars>>

\* discount_manage with action=update_promo for the promotion being edited:
\* clear_discounts, the promotion saved with the posted fields and active,
\* its members replaced by the posted items, apply_discounts.
DiscountManageUpdatePromo(k, items, form) ==
    /\ k \in DOMAIN promos
    /\ items # {}
    /\ DiscountBulkFormValid("apply", form)
    /\ LET cs1 == ClearDiscounts(CatalogStore, k)
           editing_promo == [cs1.promos[k] EXCEPT
                                !.discount_percentage = PercentOrZero(form),
                                !.discount_price = form.discount_price,
                                !.start_at = form.discount_start_date,
                                !.end_at = form.discount_end_date,
                                !.active = TRUE,
                                !.members = items]
           cs2 == [cs1 EXCEPT !.promos[k] = editing_promo]
       IN  /\ CommitCatalog(ApplyDiscounts(cs2, k, now))
           /\ manual' = Overwritten(editing_promo, cs2.products)
           /\ lastOp' = [op |-> "update", promo |-> k,
                         claimed |-> {i \in ProductIds : products[i].discount_source = k},
                         replaced |-> {}]
    /\ UNCHANGED <<now, quoted, orderVars, checkoutVars, adminVars>>

\* discount_manage with action=create_promo.
DiscountManageCreatePromo(items, form) ==
    LET k == Cardinality(DOMAIN promos) + 1
        d == Discount(PercentOrZero(form), form.discount_price,
                      form.discount_start_date, form.discount_end_date)
        promo == [NewPromotion("manual", NULL, NULL, d) EXCEPT !.members = items]
        cs == [products |-> products,
               promos |-> [j \in DOMAIN promos \cup {k} |->
                              IF j = k THEN promo ELSE promos[j]]]
    IN  /\ k \in PromoIds
        /\ items # {}
        /\ DiscountBulkFormValid("apply", form)
        /\ CommitCatalog(ApplyDiscounts(cs, k, now))
        /\ manual' = Overwritten(promo, products)
        /\ lastOp' = NoOp
        /\ UNCHANGED <<now, quoted, orderVars, checkoutVars, adminVars>>

\* discount_manage with action=apply or action=clear for the selected items.
DiscountManageBulk(action, items, form) ==
    LET d == Discount(PercentOrZero(form), form.discount_price,
                      form.discount_start_date, form.discount_end_date)
        skipped == {i \in items : /\ action = "apply"
                                  /\ form.discount_price # NULL
                                  /\ products[i].price # NULL
                                  /\ form.discount_price >= products[i].price}
        updated == items \ skipped
    IN  /\ items # {}
        /\ DiscountBulkFormValid(action, form)
        /\ products' = [i \in ProductIds |->
                           IF i \notin updated THEN products[i]
                           ELSE IF action = "clear" THEN WithDiscount(products[i], Neutral)
                           ELSE WithDiscount(products[i], d)]
        /\ manual' = [i \in ProductIds |->
                         IF i \notin updated THEN manual[i]
                         ELSE IF action = "clear" THEN {} ELSE {d}]
        /\ lastOp' = NoOp
        /\ UNCHANGED <<promos, now, quoted, orderVars, checkoutVars, adminVars>>

\* discount_create: the product's form posted back with new discount fields.
DiscountCreate(i, form) ==
    /\ form.discount_percentage # NULL
    /\ form.discount_percentage >= 0
    /\ ProductFormValid(products[i], form)
    /\ products' = [products EXCEPT ![i] = WithDiscount(products[i], form)]
    /\ manual' = [manual EXCEPT ![i] = {form}]
    /\ lastOp' = NoOp
    /\ UNCHANGED <<promos, now, quoted, orderVars, checkoutVars, adminVars>>

\* discount_remove: the product's discount fields are reset and it is saved.
DiscountRemove(i) ==
    /\ products' = [products EXCEPT ![i] = WithDiscount(products[i], Neutral)]
    /\ manual' = [manual EXCEPT ![i] = {}]
    /\ lastOp' = NoOp
    /\ UNCHANGED <<promos, now, quoted, orderVars, checkoutVars, adminVars>>

NextPromo ==
    \/ \E k \in PromoIds : PromotionActivate(k)
    \/ \E k \in PromoIds, items \in ItemSelections : PromotionUpdate(k, items)
    \/ \E k \in PromoIds : PromotionDeactivate(k)
    \/ \E k \in PromoIds : DiscountManageDeactivatePromo(k)
    \/ \E k \in PromoIds, items \in ItemSelections, form \in DiscountForms :
            DiscountManageUpdatePromo(k, items, form)
    \/ \E items \in ItemSelections, form \in DiscountForms :
            DiscountManageCreatePromo(items, form)
    \/ \E action \in {"apply", "clear"}, items \in ItemSelections, form \in DiscountForms :
            DiscountManageBulk(action, items, form)
    \/ \E i \in ProductIds, form \in ProductForms : DiscountCreate(i, form)
    \/ \E i \in ProductIds : DiscountRemove(i)

\* The seed promotion is of any of the three types that select by themselves.
InitPromo ==
    /\ InitOrders
    /\ InitCatalog({"brand", "category", "all"})
    /\ InitCheckouts({<<CartLine(1, NULL, 1)>>})
    /\ InitAdmin

SpecPromo == InitPromo /\ [][NextPromo]_vars

\* --------------------------------------------------------------- pricing
\* The discount fields a product row can carry: no or 20 percent; no fixed
\* price, a fixed price of zero or of 70.00; no start, a start at 2 or at 4;
\* no end or an end at 3.
PriceInputs ==
    {Discount(pct, price, start, end) :
        pct \in {0, 20}, price \in {NULL, 0, 7000}, start \in {NULL, 2, 4}, end \in {NULL, 3}}

InitPrice ==
    /\ InitOrders
    /\ products \in {[i \in ProductIds |-> WithDiscount(Catalogue[i], d[i])] :
                        d \in [ProductIds -> PriceInputs]}
    /\ promos = <<>>
    /\ now = 1
    /\ quoted = NoQuote
    /\ manual = [i \in ProductIds |-> {}]
    /\ lastOp = NoOp
    /\ InitCheckouts({<<CartLine(1, NULL, 1)>>})
    /\ InitAdmin

NextPrice ==
    \/ Tick
    \/ \E i \in ProductIds : PriceQuote(i)

SpecPrice == InitPrice /\ [][NextPrice]_vars

\* --------------------------------------------------------------- checkout
\* OrderCreateSerializer.create.  Nothing in it opens a transaction or locks
\* a row, so the reads of the validation loop, the insert of the order and
\* the writes of the second loop are separate database accesses of a
\* request, and requests interleave between them.

\* A Decimal price stored in a DecimalField(decimal_places=2) column; the
\* catalogue's prices are whole units, so nothing is lost.
ToHundredths(amount) == amount \div Hundredths

\* The price of a variant, had the parent's percentage been taken off the
\* variant's own discounted price as well.
OptionGetDiscountedPrice_Stacked(self, parent, t) ==
    LET own == IF self.discount_price # NULL /\ self.discount_price > 0
               THEN self.discount_price
               ELSE self.price
        percentage == self.discount_percentage +
                        (IF IsOnSale(parent, t) THEN parent.discount_percentage ELSE 0)
    IN  Exact(own) - own * percentage

\* VolumeOption.get_discounted_price / WeightOption.get_discounted_price at
\* time t, parent being the product the variant belongs to.
OptionGetDiscountedPrice(self, parent, t) ==
    IF self.discount_price # NULL /\ self.discount_price > 0
    THEN Exact(self.discount_price)
    ELSE IF self.discount_percentage > 0
    THEN Exact(self.price) - self.price * self.discount_percentage
    ELSE IF IsOnSale(parent, t) /\ parent.discount_percentage > 0
    THEN Exact(self.price) - self.price * parent.discount_percentage
    ELSE Exact(self.price)

\* CartItem.unit_price at time t: the selected variant's price if the line
\* has a variant, the product's otherwise.
UnitPrice(cart_item, t) ==
    IF cart_item.option # NULL
    THEN OptionGetDiscountedPrice(options[cart_item.option], products[cart_item.product], t)
    ELSE GetDiscountedPrice(products[cart_item.product], t)

\* The lines of the user's cart that exist.
CartLineIds(u) == {n \in DOMAIN cartItems[u] : cartItems[u][n].quantity > 0}

\* items_data is None: the lines of the user's cart are loaded, each with the
\* quantity it has now.
CheckoutLoadCart(u) ==
    /\ checkouts[u].pc = "idle"
    /\ LET items_data == [n \in 1..Len(cartItems[u]) |->
                             [cart_item_id |-> n,
                              quantity |-> cartItems[u][n].quantity,
                              cart_item |-> <<cartItems[u][n]>>]]
           loaded == SelectSeq(items_data, LAMBDA item : item.quantity > 0)
       IN  checkouts' = [checkouts EXCEPT ![u] =
                            IF loaded = <<>>
                            THEN [@ EXCEPT !.pc = "rejected"]
                            ELSE [@ EXCEPT !.pc = "validating", !.items_data = loaded,
                                           !.i = 1]]
    /\ UNCHANGED <<cartItems, orderItems, stockAtStart, orderVars, catalogVars, adminVars>>

\* items_data is the list the request carries: cart line ids with the
\* quantity to order of each; no cart line is read yet.
CheckoutLoadItems(u, items) ==
    /\ checkouts[u].pc = "idle"
    /\ checkouts' = [checkouts EXCEPT ![u] =
                        IF items = <<>>
                        THEN [@ EXCEPT !.pc = "rejected"]
                        ELSE [@ EXCEPT !.pc = "validating", !.i = 1,
                                       !.items_data =
                                           [n \in 1..Len(items) |->
                                               [cart_item_id |-> items[n][1],
                                                quantity |-> items[n][2],
                                                cart_item |-> <<>>]]]]
    /\ UNCHANGED <<cartItems, orderItems, stockAtStart, orderVars, catalogVars, adminVars>>

\* One pass of the validation loop, had it taken the units off the shelf as
\* it accepted each line.
CheckoutValidate_WritesAsItGoes(u) ==
    /\ checkouts[u].pc = "validating"
    /\ LET item_data == checkouts[u].items_data[checkouts[u].i]
           quantity == item_data.quantity
           found == \/ item_data.cart_item # <<>>
                    \/ item_data.cart_item_id \in CartLineIds(u)
           cart_item == IF item_data.cart_item # <<>> THEN item_data.cart_item[1]
                        ELSE cartItems[u][item_data.cart_item_id]
           product == products[cart_item.product]
           last == checkouts[u].i = Len(checkouts[u].items_data)
           failed == \/ ~found
                     \/ quantity > cart_item.quantity
                     \/ ~product.in_stock
                     \/ product.stock_quantity < quantity
       IN  /\ checkouts' = [checkouts EXCEPT ![u] =
                               IF failed
                               THEN [@ EXCEPT !.pc = "rejected"]
                               ELSE [@ EXCEPT
                                       !.pc = IF last THEN "validated" ELSE "validating",
                                       !.i = IF last THEN @ ELSE @ + 1,
                                       !.order_items = Append(@,
                                           [cart_item_id |-> item_data.cart_item_id,
                                            cart_item |-> cart_item,
                                            product |-> product,
                                            quantity |-> quantity]),
                                       !.subtotal = @ + ToHundredths(
                                           UnitPrice(cart_item, now) * quantity)]]
           /\ products' = IF failed THEN products
                          ELSE [products EXCEPT ![cart_item.product].stock_quantity =
                                                    @ - quantity]
    /\ UNCHANGED <<promos, now, quoted, manual, lastOp, cartItems, orderItems,
                   stockAtStart, orderVars, adminVars>>

\* One pass of the validation loop: the cart line is looked up among the
\* user's own unless it was loaded with the cart, the product row of the line
\* is read and tested, and the order item is built, in memory, from them.
\* The first line that fails raises ValidationError and ends the request.
CheckoutValidate(u) ==
    /\ checkouts[u].pc = "validating"
    /\ LET item_data == checkouts[u].items_data[checkouts[u].i]
           quantity == item_data.quantity
           found == \/ item_data.cart_item # <<>>
                    \/ item_data.cart_item_id \in CartLineIds(u)
           cart_item == IF item_data.cart_item # <<>> THEN item_data.cart_item[1]
                        ELSE cartItems[u][item_data.cart_item_id]
           product == products[cart_item.product]
           last == checkouts[u].i = Len(checkouts[u].items_data)
           failed == \/ ~found
                     \/ quantity > cart_item.quantity
                     \/ ~product.in_stock
                     \/ product.stock_quantity < quantity
       IN  checkouts' = [checkouts EXCEPT ![u] =
                            IF failed
                            THEN [@ EXCEPT !.pc = "rejected"]
                            ELSE [@ EXCEPT
                                    !.pc = IF last THEN "validated" ELSE "validating",
                                    !.i = IF last THEN @ ELSE @ + 1,
                                    !.order_items = Append(@,
                                        [cart_item_id |-> item_data.cart_item_id,
                                         cart_item |-> cart_item,
                                         product |-> product,
                                         quantity |-> quantity]),
                                    !.subtotal = @ + ToHundredths(
                                        UnitPrice(cart_item, now) * quantity)]]
    /\ UNCHANGED <<cartItems, orderItems, stockAtStart, orderVars, catalogVars, adminVars>>

\* Order.objects.create(user=user, subtotal=subtotal, **validated_data)
CheckoutCreateOrder(u) ==
    /\ checkouts[u].pc = "validated"
    /\ LET id == Cardinality(DOMAIN orders) + 1
       IN  /\ Commit(OrderSave(Store, id, NewOrder(checkouts[u].subtotal, 0, 0, 0)))
           /\ checkouts' = [checkouts EXCEPT ![u].pc = "writing", ![u].order = id,
                                             ![u].i = 1]
    /\ lastPaid' = NotPaid
    /\ UNCHANGED <<procs, opCount, cartItems, orderItems, stockAtStart, catalogVars, adminVars>>

\* One pass of the second loop: the order item is inserted, the product
\* instance read during validation is decremented and saved with all its
\* columns, the cart line read before is decremented and saved or deleted.
\* The line's variant, if it has one, is not read and not written.
CheckoutWriteItem(u) ==
    /\ checkouts[u].pc = "writing"
    /\ LET line == checkouts[u].order_items[checkouts[u].i]
           cart_item == line.cart_item
           quantity == line.quantity
           stock_quantity == line.product.stock_quantity - quantity
           product == [line.product EXCEPT
                          !.stock_quantity = stock_quantity,
                          !.in_stock = IF stock_quantity = 0 THEN FALSE ELSE @]
           last == checkouts[u].i = Len(checkouts[u].order_items)
       IN  /\ orderItems' = Append(orderItems, [order |-> checkouts[u].order,
                                                product |-> cart_item.product,
                                                option |-> cart_item.option,
                                                quantity |-> quantity])
           /\ products' = [products EXCEPT ![cart_item.product] = product]
           /\ cartItems' = [cartItems EXCEPT ![u][line.cart_item_id].quantity =
                               IF cart_item.quantity - quantity <= 0 THEN 0
                               ELSE cart_item.quantity - quantity]
           /\ checkouts' = [checkouts EXCEPT ![u].pc = IF last THEN "done" ELSE "writing",
                                             ![u].i = IF last THEN @ ELSE @ + 1]
    /\ UNCHANGED <<promos, now, quoted, manual, lastOp, stockAtStart, orderVars, adminVars>>

\* The lists a request carries: the first line alone; the first line and a
\* second line in a quantity no cart holds; a line no cart has.
CheckoutItems == {<<<<1, 1>>>>, <<<<1, 1>>, <<2, 3>>>>, <<<<3, 1>>>>}

\* The carts a user may have: the perfume once or twice, the pigment and the
\* perfume in its first variant, or the perfume in its sold-out second
\* variant.
Carts ==
    {<<CartLine(1, NULL, q)>> : q \in {1, 2}}
        \cup {<<CartLine(2, NULL, 1), CartLine(1, 1, 1)>>, <<CartLine(1, 2, 1)>>}

\* The perfume's shelf holds one or two units.
InitCheckout ==
    /\ InitOrders
    /\ products \in {[Catalogue EXCEPT ![1].stock_quantity = s] : s \in {1, 2}}
    /\ promos = <<>>
    /\ now = 1
    /\ quoted = NoQuote
    /\ manual = [i \in ProductIds |-> {}]
    /\ lastOp = NoOp
    /\ InitCheckouts(Carts)
    /\ InitAdmin

NextCheckout ==
    \/ \E u \in Procs : CheckoutLoadCart(u)
    \/ \E u \in Procs, items \in CheckoutItems : CheckoutLoadItems(u, items)
    \/ \E u \in Procs : CheckoutValidate(u)
    \/ \E u \in Procs : CheckoutCreateOrder(u)
    \/ \E u \in Procs : CheckoutWriteItem(u)

SpecCheckout == InitCheckout /\ [][NextCheckout]_vars

\* ----------------------------------------------- one checkout on its own
\* The lists of one request: the first cart line twice, the first and the
\* second line, the first line in two units.
RepeatedItems == {<<<<1, 1>>, <<1, 1>>>>, <<<<1, 1>>, <<2, 1>>>>, <<<<1, 2>>>>}

\* The carts of the user: the perfume once or twice, the perfume in both of
\* its variants, or the pigment and the perfume.
RepeatedCarts ==
    {<<CartLine(1, NULL, q)>> : q \in {1, 2}}
        \cup {<<CartLine(1, 1, 1), CartLine(1, 2, 1)>>,
              <<CartLine(2, NULL, 1), CartLine(1, NULL, 1)>>}

\* The perfume's shelf holds one, two or three units.
InitSingleCheckout ==
    /\ InitOrders
    /\ products \in {[Catalogue EXCEPT ![1].stock_quantity = s] : s \in {1, 2, 3}}
    /\ promos = <<>>
    /\ now = 1
    /\ quoted = NoQuote
    /\ manual = [i \in ProductIds |-> {}]
    /\ lastOp = NoOp
    /\ InitCheckouts(RepeatedCarts)
    /\ InitAdmin

\* The first user alone checks out, once.
NextSingleCheckout ==
    \/ CheckoutLoadCart(1)
    \/ \E items \in RepeatedItems : CheckoutLoadItems(1, items)
    \/ CheckoutValidate(1)
    \/ CheckoutCreateOrder(1)
    \/ CheckoutWriteItem(1)

SpecSingleCheckout == InitSingleCheckout /\ [][NextSingleCheckout]_vars

\* ------------------------------------------- loyalty adjustment by an admin
\* Points an admin posts in LoyaltyAdjustForm.
AdjustPoints == {10, 0 - 5}

\* user_loyalty_update, first part: LoyaltyAccount.objects.get_or_create reads
\* the account row, with no lock and outside any transaction.
LoyaltyAdjustLoad(a, points) ==
    /\ adjusts[a].pc = "idle"
    /\ opCount < MaxOps
    /\ adjusts' = [adjusts EXCEPT ![a] = [pc |-> "loaded", points |-> points,
                                          loyalty |-> account]]
    /\ opCount' = opCount + 1
    /\ UNCHANGED <<orders, account, ledger, lastPaid, procs, options, optionSaves, seen,
                   catalogVars, checkoutVars, brands, categories>>

\* user_loyalty_update, second part: the new balance is computed from the
\* instance read before, refused if negative, else the instance is saved with
\* all its columns and the adjust / redeem entry is created.
LoyaltyAdjustSave(a) ==
    /\ adjusts[a].pc = "loaded"
    /\ LET points == adjusts[a].points
           loyalty == adjusts[a].loyalty
           new_balance == loyalty.balance + points
       IN  IF new_balance < 0
           THEN UNCHANGED <<account, ledger>>
           ELSE /\ account' = [loyalty EXCEPT !.balance = new_balance]
                /\ ledger' = Append(ledger,
                        [type |-> IF points >= 0 THEN "adjust" ELSE "redeem",
                         order |-> 0, points |-> points, balance_after |-> new_balance])
    /\ adjusts' = [adjusts EXCEPT ![a] = [pc |-> "idle", points |-> 0, loyalty |-> NULL]]
    /\ UNCHANGED <<orders, lastPaid, procs, opCount, options, optionSaves, seen,
                   catalogVars, checkoutVars, brands, categories>>

\* Orders are created, paid and cancelled (each Order.save settles loyalty
\* inside the account's row lock) while admins adjust the balance.
NextLoyalty ==
    \/ \E a \in OrderAmounts : OrderCreate(a)
    \/ \E id \in OrderIds : YookassaWebhook(id)
    \/ \E id \in OrderIds, d \in UpdatedDeliveryCosts : CustomerOrderUpdate(id, "cancelled", d)
    \/ \E a \in Procs, points \in AdjustPoints : LoyaltyAdjustLoad(a, points)
    \/ \E a \in Procs : LoyaltyAdjustSave(a)

SpecLoyalty == Init /\ [][NextLoyalty]_vars

\* ------------------------------------------------------- saves of variants
\* VolumeOption.save / WeightOption.save of a row that exists (the post_save
\* receivers act on creation only).  The UPDATE of the siblings and the
\* write of the row are two statements with no lock taken between them.

\* VolumeOption.objects.filter(perfume=self.perfume, is_default=True)
\*     .exclude(pk=self.pk).update(is_default=False)
UnsetOtherDefaults(opts, id, obj) ==
    [w \in DOMAIN opts |->
        IF w # id /\ opts[w].product = obj.product /\ opts[w].is_default
        THEN [opts[w] EXCEPT !.is_default = FALSE]
        ELSE opts[w]]

\* save() as a whole, with no other save between its statements.
OptionSave(opts, id, obj) ==
    LET others == IF obj.is_default THEN UnsetOtherDefaults(opts, id, obj) ELSE opts
    IN  [others EXCEPT ![id] = obj]

\* A request loads the variant and sets is_default as posted.
OptionSaveBegin(p, v, is_default) ==
    /\ optionSaves[p].pc = "idle"
    /\ opCount < MaxOps
    /\ optionSaves' = [optionSaves EXCEPT ![p] =
                          [pc |-> "loaded", id |-> v,
                           obj |-> [options[v] EXCEPT !.is_default = is_default]]]
    /\ opCount' = opCount + 1
    /\ UNCHANGED <<orders, account, ledger, lastPaid, procs, adjusts, options, seen,
                   catalogVars, checkoutVars, brands, categories>>

\* save(), first statement: a default unsets the other defaults of its product.
OptionSaveUnsetOthers(p) ==
    /\ optionSaves[p].pc = "loaded"
    /\ options' = IF optionSaves[p].obj.is_default
                  THEN UnsetOtherDefaults(options, optionSaves[p].id, optionSaves[p].obj)
                  ELSE options
    /\ optionSaves' = [optionSaves EXCEPT ![p].pc = "unset"]
    /\ UNCHANGED <<adjusts, seen, orderVars, catalogVars, checkoutVars, brands, categories>>

\* save(), second statement: super().save() writes the row's columns.
OptionSaveWrite(p) ==
    /\ optionSaves[p].pc = "unset"
    /\ options' = [options EXCEPT ![optionSaves[p].id] = optionSaves[p].obj]
    /\ optionSaves' = [optionSaves EXCEPT ![p] = [pc |-> "idle", id |-> 0, obj |-> NULL]]
    /\ UNCHANGED <<adjusts, seen, orderVars, catalogVars, checkoutVars, brands, categories>>

\* The perfume's two variants, with none or one of them the default.
InitVariants ==
    /\ InitOrders
    /\ InitCatalog({"brand"})
    /\ InitCheckouts({<<CartLine(1, NULL, 1)>>})
    /\ adjusts = IdleAdjusts
    /\ options \in {SeedOptions(1, defaults) : defaults \in {{}, {1}, {2}}}
    /\ optionSaves = IdleOptionSaves
    /\ seen = NoPage
    /\ brands = BrandIds
    /\ categories = CategoryIds

NextVariants ==
    \/ \E p \in Procs, v \in OptionIds, is_default \in BOOLEAN :
            OptionSaveBegin(p, v, is_default)
    \/ \E p \in Procs : OptionSaveUnsetOthers(p)
    \/ \E p \in Procs : OptionSaveWrite(p)

SpecVariants == InitVariants /\ [][NextVariants]_vars

\* ------------------------------------- order status update with a stamp
\* The seconds by which the posted updated_at may differ from the stored one.
StampToleranceSeconds == 1

\* order_detail: the page an admin has open shows the order as it is now,
\* its updated_at included.
OrderDetail(id) ==
    /\ id \in DOMAIN orders
    /\ seen' = [id |-> id, updated_at |-> orders[id].updated_at, order |-> <<orders[id]>>]
    /\ UNCHANGED <<adjusts, options, optionSaves, orderVars, catalogVars, checkoutVars, brands, categories>>

\* The test order_status_update makes of the posted updated_at, the clock
\* counting seconds.
StampIsStale(order, posted_dt) ==
    LET delta == order.updated_at - posted_dt
    IN  /\ order.updated_at # NULL
        /\ (IF delta < 0 THEN 0 - delta ELSE delta) > StampToleranceSeconds

\* order_status_update for a POST that carries the updated_at of the page
\* the admin has open for the order.
OrderStatusUpdateStamped(id, post) ==
    /\ id \in DOMAIN orders
    /\ seen.id = id
    /\ IF StampIsStale(orders[id], seen.updated_at)
       THEN UNCHANGED <<orders, account, ledger>>
       ELSE Commit(OrderStatusUpdateResult(Store, id, post))
    /\ lastPaid' = NotPaid
    /\ seen' = NoPage
    /\ UNCHANGED <<procs, opCount, adjusts, options, optionSaves, catalogVars, checkoutVars, brands, categories>>

NextStamp ==
    \/ \E a \in OrderAmounts : OrderCreate(a)
    \/ Tick
    \/ \E id \in OrderIds : OrderDetail(id)
    \/ \E id \in DOMAIN orders : \E post \in StatusPosts(id) :
            OrderStatusUpdateStamped(id, post)
    \/ \E id \in OrderIds : YookassaWebhook(id)
    \/ \E sel \in SUBSET OrderIds, s \in Statuses \ {"pending"} : OrderAdminMarkAs(sel, s)
    \/ \E id \in OrderIds, s \in Statuses, d \in UpdatedDeliveryCosts :
            CustomerOrderUpdate(id, s, d)

SpecStamp == Init /\ [][NextStamp]_vars

\* ------------------------------------------------------------------- cart
\* CartItemViewSet.add_product and sync_cart on the cart of a user.  The
\* unique_together of CartItem spans perfume, pigment, volume_option and
\* weight_option, of which at least one is NULL in every row, and a unique
\* index takes NULLs as distinct: it refuses no row.

\* The lookup of a posted variant among the variants of the product.
OptionFound(product, option) ==
    \/ option = NULL
    \/ (option \in OptionIds /\ options[option].product = product)

\* in_stock and stock_quantity as add_product and sync_cart read them: the
\* variant's if one is selected, the product's otherwise.
AvailableStock(product, option) ==
    IF option # NULL THEN options[option].stock_quantity
    ELSE products[product].stock_quantity

AvailableInStock(product, option) ==
    IF option # NULL THEN options[option].in_stock ELSE products[product].in_stock

\* The rows of a cart that match a product and a variant.
MatchingLines(cart, product, option) ==
    {n \in DOMAIN cart : /\ cart[n].quantity > 0
                         /\ cart[n].product = product
                         /\ cart[n].option = option}

MinOf(S) == CHOOSE n \in S : \A m \in S : n <= m
MaxOf(S) == CHOOSE n \in S : \A m \in S : m <= n

\* add_product: the cart afterwards.
AddProductResult(cart, product, option, quantity) ==
    LET existing == MatchingLines(cart, product, option)
    IN  IF ~OptionFound(product, option) THEN cart
        ELSE IF ~AvailableInStock(product, option) THEN cart
        ELSE IF AvailableStock(product, option) < quantity THEN cart
        ELSE IF existing # {}
        THEN LET existing_item == MinOf(existing)
                 new_quantity == cart[existing_item].quantity + quantity
             IN  IF AvailableStock(product, option) < new_quantity THEN cart
                 ELSE [cart EXCEPT ![existing_item].quantity = new_quantity]
        ELSE Append(cart, CartLine(product, option, quantity))

AddProduct(u, product, option, quantity) ==
    /\ opCount < MaxOps
    /\ opCount' = opCount + 1
    /\ cartItems' = [cartItems EXCEPT ![u] = AddProductResult(@, product, option, quantity)]
    /\ UNCHANGED <<orders, account, ledger, lastPaid, procs, orderItems, checkouts,
                   stockAtStart, catalogVars, adminVars>>

\* sync_cart, the dictionary built before the loop: one row per key, the
\* last row read if two rows have the same key.
ExistingItems(cart) ==
    {n \in DOMAIN cart :
        /\ cart[n].quantity > 0
        /\ n = MaxOf(MatchingLines(cart, cart[n].product, cart[n].option))}

\* sync_cart, one pass of the loop over the posted items: st.cart is the
\* cart, st.existing_items the rows still in the dictionary.  A row that
\* matches has a variant that exists, so the lookups of that branch succeed.
SyncItem(st, item_data) ==
    LET cart == st.cart
        hit == {n \in st.existing_items : /\ cart[n].product = item_data.product
                                          /\ cart[n].option = item_data.option}
        available_stock == AvailableStock(item_data.product, item_data.option)
        in_stock == AvailableInStock(item_data.product, item_data.option)
    IN  IF hit # {}
        THEN LET existing_item == MinOf(hit)
             IN  IF ~in_stock
                 THEN [cart |-> [cart EXCEPT ![existing_item].quantity = 0],
                       existing_items |-> st.existing_items \ {existing_item}]
                 ELSE [cart |-> [cart EXCEPT ![existing_item].quantity =
                                    IF available_stock < item_data.quantity
                                    THEN available_stock ELSE item_data.quantity],
                       existing_items |-> st.existing_items \ {existing_item}]
        ELSE IF \/ ~OptionFound(item_data.product, item_data.option)
                \/ ~in_stock
                \/ available_stock < item_data.quantity
        THEN st
        ELSE [st EXCEPT !.cart = Append(cart, item_data)]

RECURSIVE SyncItems(_, _)
SyncItems(st, items) ==
    IF items = <<>> THEN st ELSE SyncItems(SyncItem(st, Head(items)), Tail(items))

\* sync_cart: the loop over the posted items, then the rows left in the
\* dictionary are deleted.
SyncCartResult(cart, items) ==
    LET st == SyncItems([cart |-> cart, existing_items |-> ExistingItems(cart)], items)
    IN  [n \in DOMAIN st.cart |->
            IF n \in st.existing_items THEN [st.cart[n] EXCEPT !.quantity = 0]
            ELSE st.cart[n]]

SyncCart(u, items) ==
    /\ opCount < MaxOps
    /\ opCount' = opCount + 1
    /\ cartItems' = [cartItems EXCEPT ![u] = SyncCartResult(@, items)]
    /\ UNCHANGED <<orders, account, ledger, lastPaid, procs, orderItems, checkouts,
                   stockAtStart, catalogVars, adminVars>>

\* The items a request names: the perfume, the perfume in its first or in
\* its sold-out second variant, the pigment; one unit of each.
PostedItems ==
    {CartLine(1, NULL, 1), CartLine(1, 1, 1), CartLine(1, 2, 1), CartLine(2, NULL, 1)}

\* The lists sync_cart is posted: one or two items.
SyncPayloads ==
    {<<a>> : a \in PostedItems} \cup {<<a, b>> : a \in PostedItems, b \in PostedItems}

\* Every cart starts empty.
InitCart ==
    /\ InitOrders
    /\ InitCatalog({"brand"})
    /\ InitCheckouts({<<>>})
    /\ InitAdmin

NextCart ==
    \/ \E u \in Procs, item \in PostedItems :
            AddProduct(u, item.product, item.option, item.quantity)
    \/ \E u \in Procs, items \in SyncPayloads : SyncCart(u, items)

SpecCart == InitCart /\ [][NextCart]_vars

\* --------------------------------------------------------- variant prices
\* CartItemSerializer.get_unit_price: the unit price shown for a line of the
\* user's cart.
CartItemQuote(u, n) ==
    /\ n \in DOMAIN cartItems[u]
    /\ cartItems[u][n].quantity > 0
    /\ quoted' = [product |-> cartItems[u][n].product,
                  option |-> cartItems[u][n].option,
                  at |-> now,
                  price |-> UnitPrice(cartItems[u][n], now),
                  is_on_sale |-> FALSE]
    /\ UNCHANGED <<products, promos, now, manual, lastOp, orderVars, checkoutVars, adminVars>>

\* The discounts the perfume may carry: none, 20% with no window or from 2
\* to 3, a fixed 70.00 from 2 to 3.
ParentDiscounts ==
    {Neutral, Discount(20, NULL, NULL, NULL), Discount(20, NULL, 2, 3),
     Discount(0, 7000, 2, 3)}

\* The discounts its first variant may carry itself: a percentage of 0 or
\* 10, with no fixed price, a fixed price of 0 or one of 50.00.
OptionDiscounts ==
    {[discount_percentage |-> pct, discount_price |-> price] :
        pct \in {0, 10}, price \in {NULL, 0, 5000}}

\* The perfume with one of the discounts, its first variant with one of its
\* own, and in each cart the perfume in that variant.
InitVariantPrice ==
    /\ InitOrders
    /\ products \in {[Catalogue EXCEPT ![1] = WithDiscount(@, d)] : d \in ParentDiscounts}
    /\ promos = <<>>
    /\ now = 1
    /\ quoted = NoQuote
    /\ manual = [i \in ProductIds |-> {}]
    /\ lastOp = NoOp
    /\ InitCheckouts({<<CartLine(1, 1, 1)>>})
    /\ adjusts = IdleAdjusts
    /\ options \in {[SeedOptions(1, {1}) EXCEPT
                        ![1].discount_percentage = d.discount_percentage,
                        ![1].discount_price = d.discount_price] : d \in OptionDiscounts}
    /\ optionSaves = IdleOptionSaves
    /\ seen = NoPage
    /\ brands = BrandIds
    /\ categories = CategoryIds

NextVariantPrice ==
    \/ Tick
    \/ \E u \in Procs, n \in 1..2 : CartItemQuote(u, n)

SpecVariantPrice == InitVariantPrice /\ [][NextVariantPrice]_vars

\* ------------------------------------------------------ promotion targets
\* brand_delete: Brand.delete() takes the products of the brand with it
\* (on_delete=CASCADE) and sets Promotion.brand of the promotions that name
\* it to NULL (on_delete=SET_NULL).  The catalogue keeps its rows here, so
\* the brands deleted are those no product belongs to.
BrandDelete(b) ==
    /\ b \in brands
    /\ \A i \in ProductIds : products[i].brand # b
    /\ brands' = brands \ {b}
    /\ promos' = [k \in DOMAIN promos |->
                    IF promos[k].brand = b THEN [promos[k] EXCEPT !.brand = NULL]
                                           ELSE promos[k]]
    /\ lastOp' = NoOp
    /\ UNCHANGED <<products, now, quoted, manual, adjusts, options, optionSaves,
                   seen, categories, orderVars, checkoutVars>>

\* category_delete, likewise for Promotion.category.
CategoryDelete(c) ==
    /\ c \in categories
    /\ \A i \in ProductIds : products[i].category # c
    /\ categories' = categories \ {c}
    /\ promos' = [k \in DOMAIN promos |->
                    IF promos[k].category = c THEN [promos[k] EXCEPT !.category = NULL]
                                              ELSE promos[k]]
    /\ lastOp' = NoOp
    /\ UNCHANGED <<products, now, quoted, manual, adjusts, options, optionSaves,
                   seen, brands, orderVars, checkoutVars>>

\* The promotions PromotionForm accepts: a brand promotion names a brand, a
\* category promotion a category; 20% off, open-ended.
TargetPromotions ==
    {NewPromotion("brand", b, NULL, Discount(20, NULL, NULL, NULL)) : b \in BrandIds}
        \cup {NewPromotion("category", NULL, c, Discount(20, NULL, NULL, NULL)) : c \in CategoryIds}
        \cup {NewPromotion("all", NULL, NULL, Discount(20, NULL, NULL, NULL))}

InitTargets ==
    /\ InitOrders
    /\ products = Catalogue
    /\ promos \in {[k \in {1} |-> seed] : seed \in TargetPromotions}
    /\ now = 1
    /\ quoted = NoQuote
    /\ manual = [i \in ProductIds |-> {}]
    /\ lastOp = NoOp
    /\ InitCheckouts({<<CartLine(1, NULL, 1)>>})
    /\ InitAdmin

NextTargets ==
    \/ \E b \in BrandIds : BrandDelete(b)
    \/ \E c \in CategoryIds : CategoryDelete(c)
    \/ \E k \in PromoIds : PromotionActivate(k)
    \/ \E k \in PromoIds : PromotionDeactivate(k)
    \/ \E items \in ItemSelections, form \in DiscountForms :
            DiscountManageCreatePromo(items, form)

SpecTargets == InitTargets /\ [][NextTargets]_vars

\* -------------------------------------------------------- variant creation
\* The sizes an admin gives a new variant: the second is the size every
\* product of the catalogue has itself.
OptionSizes == {30, 50, 100}

RECURSIVE EnsureBaseOption(_, _, _)

\* VolumeOption.objects.create / the save() of a new instance: the other
\* defaults of the product are unset if the new row is a default, the row is
\* inserted under the next id, and post_save runs with created=True.
OptionCreateRow(opts, rows, obj) ==
    LET id == IF DOMAIN opts = {} THEN 1
              ELSE (CHOOSE w \in DOMAIN opts : \A x \in DOMAIN opts : x <= w) + 1
        others == IF obj.is_default THEN UnsetOtherDefaults(opts, id, obj) ELSE opts
        inserted == [w \in DOMAIN opts \cup {id} |-> IF w = id THEN obj ELSE others[w]]
    IN  EnsureBaseOption(inserted, rows, obj)

\* The receiver without the count() == 1 test.
EnsureBaseOption_AnyCount(opts, rows, instance) ==
    LET product == rows[instance.product]
    IN  IF instance.size # product.size
        THEN OptionCreateRow(opts, rows,
                [NewOption(instance.product, product.size, product.price,
                           product.stock_quantity, TRUE)
                    EXCEPT !.in_stock = product.in_stock])
        ELSE opts

\* ensure_base_volume_option / ensure_base_weight_option for created=True.
EnsureBaseOption(opts, rows, instance) ==
    LET product == rows[instance.product]
        count == Cardinality({w \in DOMAIN opts : opts[w].product = instance.product})
    IN  IF count = 1 /\ instance.size # product.size
        THEN OptionCreateRow(opts, rows,
                [NewOption(instance.product, product.size, product.price,
                           product.stock_quantity, TRUE)
                    EXCEPT !.in_stock = product.in_stock])
        ELSE opts

\* A new variant of product i saved from the inline formset of perfume_edit /
\* pigment_edit or of the admin; the formset's validate_unique refuses a size
\* the product has a variant of already.
OptionCreate(i, size, is_default) ==
    /\ opCount < MaxOps
    /\ \A w \in DOMAIN options : ~(options[w].product = i /\ options[w].size = size)
    /\ options' = OptionCreateRow(options, products, NewOption(i, size, 6000, 3, is_default))
    /\ opCount' = opCount + 1
    /\ UNCHANGED <<orders, account, ledger, lastPaid, procs, adjusts, optionSaves, seen,
                   brands, categories, catalogVars, checkoutVars>>

\* A variant deleted through the same formset.
OptionDelete(v) ==
    /\ opCount < MaxOps
    /\ v \in DOMAIN options
    /\ options' = [w \in DOMAIN options \ {v} |-> options[w]]
    /\ opCount' = opCount + 1
    /\ UNCHANGED <<orders, account, ledger, lastPaid, procs, adjusts, optionSaves, seen,
                   brands, categories, catalogVars, checkoutVars>>

\* No product has a variant yet; the perfume is in stock, sold out, or has
\* no unit left while still flagged in stock.
InitVariantCreate ==
    /\ InitOrders
    /\ products \in {[Catalogue EXCEPT ![1].stock_quantity = st[1], ![1].in_stock = st[2]] :
                        st \in {<<1, TRUE>>, <<0, FALSE>>, <<0, TRUE>>}}
    /\ promos \in {[k \in {1} |-> seed] : seed \in {s \in SeedPromotions : s.promo_type = "brand"}}
    /\ now = 1
    /\ quoted = NoQuote
    /\ manual = [i \in ProductIds |-> {}]
    /\ lastOp = NoOp
    /\ InitCheckouts({<<CartLine(1, NULL, 1)>>})
    /\ adjusts = IdleAdjusts
    /\ options = <<>>
    /\ optionSaves = IdleOptionSaves
    /\ seen = NoPage
    /\ brands = BrandIds
    /\ categories = CategoryIds

NextVariantCreate ==
    \/ \E i \in ProductIds, size \in OptionSizes, is_default \in BOOLEAN :
            OptionCreate(i, size, is_default)
    \/ \E v \in DOMAIN options : OptionDelete(v)

SpecVariantCreate == InitVariantCreate /\ [][NextVariantCreate]_vars

\* ------------------------------------------------------------ properties
EarnEntries(id) == {i \in DOMAIN ledger : ledger[i].type = "earn" /\ ledger[i].order = id}
RefundEntries(id) == {i \in DOMAIN ledger : ledger[i].type = "refund" /\ ledger[i].order = id}

\* C1: every change of an order's stored status follows an edge of the
\* transition table; delivered and cancelled orders never change status.
C1_StatusChangesFollowTable ==
    [][\A id \in DOMAIN orders :
          orders'[id].status # orders[id].status
              => orders'[id].status \in AllowedTransitions[orders[id].status]]_vars

\* C2: an admin status update asking for a status that is not allowed from the
\* stored status is rejected: order rows, account and ledger stay as they are.
C2_DisallowedUpdateRejected ==
    \A id \in DOMAIN orders : \A post \in StatusPosts(id) :
        (post.status # orders[id].status
            /\ post.status \notin AllowedTransitions[orders[id].status])
        => OrderStatusUpdateResult(Store, id, post) = Store

\* C3: marking an order paid twice in a row credits it once: after the first
\* call loyalty_awarded is true and the order has one earn entry exactly when it
\* earned points; the second call changes neither account nor ledger.
C3_MarkPaidTwiceAwardsOnce ==
    /\ [](\A id \in DOMAIN orders :
            lastPaid.id = id =>
                /\ orders[id].loyalty_awarded
                /\ Cardinality(EarnEntries(id))
                       = IF orders[id].loyalty_points_earned > 0 THEN 1 ELSE 0)
    /\ [][lastPaid'.n = 2 => (account' = account /\ ledger' = ledger)]_vars

C3_Witness ==
    /\ lastPaid.n = 2
    /\ Cardinality(EarnEntries(lastPaid.id)) = 1
    /\ account.balance = orders[lastPaid.id].loyalty_points_earned
    /\ account.balance > 0

\* C6: every stored order has total = max(0, subtotal - loyalty_discount +
\* delivery_cost), a missing discount or delivery cost counting as 0.
C6_TotalInvariant ==
    \A id \in DOMAIN orders :
        LET o == orders[id]
            dc == IF o.delivery_cost = NULL THEN 0 ELSE o.delivery_cost
            ld == IF o.loyalty_discount = NULL THEN 0 ELSE o.loyalty_discount
        IN  o.total = Max(0, o.subtotal - ld + dc)

C6_Witness ==
    \E id \in DOMAIN orders :
        /\ orders[id].status = "paid"
        /\ orders[id].subtotal - orders[id].loyalty_discount + orders[id].delivery_cost < 0
        /\ orders[id].total = 0

\* C4: two concurrent requests that load the same order, not yet awarded, and
\* save it as paid credit its points at most once.
C4_ConcurrentPaidAwardsOnce ==
    opCount <= 2 => \A id \in DOMAIN orders : Cardinality(EarnEntries(id)) <= 1

\* C10: loyalty_awarded and loyalty_refunded of a stored order, once true,
\* stay true.
C10_FlagsMonotonic ==
    [][\A id \in DOMAIN orders :
          /\ orders[id].loyalty_awarded => orders'[id].loyalty_awarded
          /\ orders[id].loyalty_refunded => orders'[id].loyalty_refunded]_vars

\* The rows clear_discounts of promotion k finds, and what it must leave.
C7_Frame(cs, k) ==
    LET after == ClearDiscounts(cs, k)
    IN  /\ \A i \in DOMAIN cs.products :
              IF cs.products[i].discount_source = k
              THEN /\ DiscountOf(after.products[i]) = Neutral
                   /\ after.products[i].discount_source = NULL
              ELSE after.products[i] = cs.products[i]
        /\ after.promos[k].active = FALSE
        /\ \A j \in DOMAIN cs.promos \ {k} : after.promos[j] = cs.promos[j]

\* C7: clear_discounts of a promotion resets the discount fields and the
\* source of exactly the products whose discount_source is that promotion and
\* marks it inactive; every other product, in particular one discounted by
\* another promotion, keeps all its fields.  This holds of the function in
\* every reachable state and of every request that deactivates a promotion.
C7_ClearDiscountsFrame ==
    /\ [](\A k \in DOMAIN promos : C7_Frame(CatalogStore, k))
    /\ [][lastOp'.op = "clear" =>
            LET k == lastOp'.promo
            IN  /\ \A i \in ProductIds :
                      IF products[i].discount_source = k
                      THEN /\ DiscountOf(products'[i]) = Neutral
                           /\ products'[i].discount_source = NULL
                      ELSE products'[i] = products[i]
                /\ ~promos'[k].active]_vars

\* A promotion that had claimed a product was cleared while another product
\* carries the discount of another promotion.
C7_Witness ==
    /\ lastOp.op = "clear"
    /\ lastOp.claimed # {}
    /\ \A i \in lastOp.claimed : DiscountOf(products[i]) = Neutral
    /\ \E i \in ProductIds \ lastOp.claimed :
          /\ products[i].discount_source \in DOMAIN promos \ {lastOp.promo}
          /\ DiscountOf(products[i]) # Neutral

\* C8: a discount an admin set by hand (discount_create or the bulk apply of
\* discount_manage) stays on the product until an admin or an apply_discounts
\* replaces or removes it; no clear_discounts reverts it.
C8_ManualDiscountKept ==
    \A i \in ProductIds : \A d \in manual[i] : DiscountOf(products[i]) = d

\* The price the rule of the price resolution gives for a row at time t, in
\* ten-thousandths: the base price outside the window, inside it the fixed
\* price if set and positive, else base * (1 - percentage / 100) if the
\* percentage is positive, else the base price.
C9_Expected(row, t) ==
    LET before == row.discount_start_date # NULL /\ t < row.discount_start_date
        after == row.discount_end_date # NULL /\ t > row.discount_end_date
    IN  IF before \/ after THEN row.price * 100
        ELSE IF row.discount_price # NULL /\ row.discount_price > 0
             THEN row.discount_price * 100
        ELSE IF row.discount_percentage > 0
             THEN row.price * (100 - row.discount_percentage)
        ELSE row.price * 100

\* C9: every price handed out equals the base price outside the discount
\* window, and inside it the fixed discount price when set and positive
\* whatever the percentage, else the base price less the percentage, else
\* the base price.
C9_PriceResolution ==
    quoted.product \in ProductIds =>
        quoted.price = C9_Expected(products[quoted.product], quoted.at)

\* A perfume with both 20% and a fixed 70.00 was quoted inside its window
\* and the fixed price came out.
C9_Witness ==
    /\ quoted.product = 1
    /\ DiscountOf(products[1]) = Discount(20, 7000, 2, 3)
    /\ quoted.at = 2
    /\ quoted.price = 700000

Sold(i) ==
    LET lines == {n \in DOMAIN orderItems : orderItems[n].product = i}
        count[S \in SUBSET lines] ==
            IF S = {} THEN 0
            ELSE LET n == CHOOSE m \in S : TRUE
                 IN  orderItems[n].quantity + count[S \ {n}]
    IN  count[lines]

\* C5: the units sold by checkouts never exceed the stock there was, the
\* stored stock is never negative, and when two users each ask for one unit
\* of a product with one unit in stock and both requests have ended, one
\* order exists and one request was rejected.
C5_ConcurrentCheckoutsNoOversell ==
    /\ \A i \in ProductIds :
          /\ products[i].stock_quantity >= 0
          /\ Sold(i) <= stockAtStart[i]
    /\ (/\ stockAtStart[1] = 1
        /\ \A u \in Procs : checkouts[u].pc \in {"done", "rejected"}
        /\ \A u \in Procs :
              /\ Len(checkouts[u].items_data) = 1
              /\ checkouts[u].items_data[1].quantity = 1
              /\ checkouts[u].items_data[1].cart_item_id \in DOMAIN cartItems[u]
              /\ cartItems[u][checkouts[u].items_data[1].cart_item_id].product = 1)
       => /\ Cardinality(DOMAIN orders) = 1
          /\ Cardinality({u \in Procs : checkouts[u].pc = "rejected"}) = 1

\* C11: no stored order has status paid or delivered with loyalty_awarded
\* false: whatever makes the status paid or delivered also performs the award.
C11_PaidOrDeliveredIsAwarded ==
    \A id \in DOMAIN orders :
        orders[id].status \in {"paid", "delivered"} => orders[id].loyalty_awarded

\* floor(max(subtotal - loyalty_discount, 0) * 0.05) of a stored order, in points.
C12_Earned(o) ==
    LET base == IF o.subtotal - o.loyalty_discount > 0
                THEN o.subtotal - o.loyalty_discount ELSE 0
    IN  (base * 5) \div 10000

\* C12: the step on which an order's award fires stores earned =
\* floor(max(subtotal - loyalty_discount, 0) * 0.05) in loyalty_points_earned
\* with loyalty_awarded true; if earned > 0 balance and lifetime_earned grow by
\* earned and one earn entry with points = earned and balance_after = the new
\* balance is appended; if earned = 0 account and ledger stay as they were.
C12_AwardAmounts ==
    [][\A id \in DOMAIN orders :
          (~orders[id].loyalty_awarded /\ orders'[id].loyalty_awarded) =>
              LET earned == C12_Earned(orders'[id])
              IN  /\ orders'[id].loyalty_points_earned = earned
                  /\ earned > 0 =>
                        /\ account'.balance = account.balance + earned
                        /\ account'.lifetime_earned = account.lifetime_earned + earned
                        /\ account'.lifetime_redeemed = account.lifetime_redeemed
                        /\ ledger' = Append(ledger,
                                [type |-> "earn", order |-> id, points |-> earned,
                                 balance_after |-> account.balance + earned])
                  /\ earned = 0 => account' = account /\ ledger' = ledger]_vars

\* The order of 500.00 less 50.00 was awarded 22 points, the only entry of
\* the ledger.
C12_Witness ==
    \E id \in DOMAIN orders :
        /\ orders[id].subtotal = 50000 /\ orders[id].loyalty_discount = 5000
        /\ orders[id].loyalty_awarded
        /\ orders[id].loyalty_points_earned = 22
        /\ account.balance = 22 /\ account.lifetime_earned = 22
        /\ ledger = <<[type |-> "earn", order |-> id, points |-> 22, balance_after |-> 22]>>

\* C13: an order with loyalty_points_used > 0 is refunded once: the step that
\* sets loyalty_refunded adds loyalty_points_used to the balance, lowers
\* lifetime_redeemed by it (not below 0) and appends one refund entry, also
\* when the order had been awarded; no order has two refund entries; and once
\* refunded, nothing is appended to the ledger for that order any more.
C13_RefundOnce ==
    /\ [](\A id \in DOMAIN orders : Cardinality(RefundEntries(id)) <= 1)
    /\ [][\A id \in DOMAIN orders :
            /\ (~orders[id].loyalty_refunded /\ orders'[id].loyalty_refunded) =>
                  LET used == orders[id].loyalty_points_used
                      left == account.lifetime_redeemed - used
                  IN  /\ used > 0
                      /\ orders'[id].status = "cancelled"
                      /\ account'.balance = account.balance + used
                      /\ account'.lifetime_redeemed = IF left > 0 THEN left ELSE 0
                      /\ ledger' = Append(ledger,
                              [type |-> "refund", order |-> id, points |-> used,
                               balance_after |-> account.balance + used])
            /\ orders[id].loyalty_refunded =>
                  {n \in DOMAIN ledger' : ledger'[n].order = id}
                      = {n \in DOMAIN ledger : ledger[n].order = id}]_vars

LedgerPoints ==
    LET sum[n \in 0..Len(ledger)] == IF n = 0 THEN 0 ELSE sum[n - 1] + ledger[n].points
    IN  sum[Len(ledger)]

\* C14: the balance of the account is the sum of the points of its ledger
\* entries, and every step that appends an entry stores the balance that the
\* entry records as balance_after.
C14_BalanceMatchesLedger ==
    /\ [](account.balance = LedgerPoints)
    /\ [][Len(ledger') = Len(ledger) + 1 =>
            ledger'[Len(ledger')].balance_after = account'.balance]_vars


\* C15: a checkout accepts a cart line that has a variant only if the
\* variant is in stock with at least the requested quantity, and writing
\* such a line takes the quantity off the variant's stock and leaves the
\* product rows alone; writing a line without a variant leaves the variants
\* alone.
C15_VariantStockUsed ==
    [][\A u \in Procs :
          LET c == checkouts[u]
          IN  /\ (/\ c.pc = "validating"
                  /\ Len(checkouts'[u].order_items) = Len(c.order_items) + 1)
                 => LET line == checkouts'[u].order_items[Len(checkouts'[u].order_items)]
                        v == line.cart_item.option
                    IN  v # NULL => /\ options[v].in_stock
                                    /\ options[v].stock_quantity >= line.quantity
              /\ (c.pc = "writing" /\ checkouts'[u] # c)
                 => LET line == c.order_items[c.i]
                        v == line.cart_item.option
                    IN  IF v # NULL
                        THEN /\ options'[v].stock_quantity =
                                    options[v].stock_quantity - line.quantity
                             /\ products' = products
                        ELSE options' = options]_vars

\* C16: a checkout request that has not passed validation has no order, and
\* no step of its loading and validation, the rejecting one included,
\* changes an order, an order item, a product row, a variant row or a cart
\* line.
C16_RejectedCheckoutChangesNothing ==
    /\ [](\A u \in Procs :
            checkouts[u].pc \in {"idle", "validating", "rejected"}
                => checkouts[u].order = 0)
    /\ [][\A u \in Procs :
            (checkouts[u].pc \in {"idle", "validating"} /\ checkouts'[u] # checkouts[u])
                => UNCHANGED <<orders, orderItems, products, options, cartItems, brands, categories>>]_vars

\* A request rejected at its second line, after its first line was accepted,
\* with no order, no order item, the shelf and the cart as they were.
C16_Witness ==
    \E u \in Procs :
        /\ checkouts[u].pc = "rejected"
        /\ checkouts[u].i = 2
        /\ Len(checkouts[u].order_items) = 1
        /\ checkouts[u].order = 0
        /\ orders = <<>>
        /\ orderItems = <<>>
        /\ \A i \in ProductIds : products[i].stock_quantity = stockAtStart[i]
        /\ cartItems[u][1].quantity > 0


\* C17: while a promotion is active, every product whose discount_source is
\* that promotion has the promotion's discount_percentage and discount_price
\* and its end_at as discount_end_date.
C17_LinkedProductsInSync ==
    \A k \in DOMAIN promos :
        promos[k].active =>
            \A i \in ProductIds :
                products[i].discount_source = k =>
                    /\ products[i].discount_percentage = promos[k].discount_percentage
                    /\ products[i].discount_price = promos[k].discount_price
                    /\ products[i].discount_end_date = promos[k].end_at


\* C18: when a manual promotion that is active is applied again, by the
\* update of discount_manage or by activate after an edit of its members, a
\* product that is no longer among its members is not linked to the
\* promotion afterwards and, if it was linked, has neutral discount fields;
\* every member carries the promotion's current discount and is linked to it.
C18_EditClearsRemovedMembers ==
    [][(/\ lastOp'.op \in {"update", "apply"}
        /\ promos[lastOp'.promo].active
        /\ promos[lastOp'.promo].promo_type = "manual")
       => LET k == lastOp'.promo
          IN  /\ \A i \in ProductIds \ promos'[k].members :
                    /\ products'[i].discount_source # k
                    /\ products[i].discount_source = k
                          => DiscountOf(products'[i]) = Neutral
              /\ \A i \in promos'[k].members :
                    /\ products'[i].discount_source = k
                    /\ products'[i].discount_percentage = promos'[k].discount_percentage
                    /\ products'[i].discount_price = promos'[k].discount_price
                    /\ products'[i].discount_end_date = promos'[k].end_at]_vars


\* C19: once no save of a variant is under way, no product has two default
\* variants; and a save of a variant with is_default true, run by itself,
\* leaves that variant the only default of its product.
C19_AtMostOneDefault ==
    /\ (\A p \in Procs : optionSaves[p].pc = "idle")
          => \A i \in ProductIds :
                Cardinality({v \in OptionIds : /\ options[v].product = i
                                               /\ options[v].is_default}) <= 1
    /\ \A v \in OptionIds :
          LET after == OptionSave(options, v, [options[v] EXCEPT !.is_default = TRUE])
          IN  /\ after[v].is_default
              /\ \A w \in OptionIds \ {v} :
                    after[w].product = after[v].product => ~after[w].is_default


\* C20: a status update posted with the updated_at of the page the admin has
\* open changes nothing when the stored order no longer has that updated_at
\* or is no longer the order the page showed.
C20_StaleUpdateRejected ==
    [][(seen.id # 0 /\ seen' = NoPage)
       => ((\/ orders[seen.id].updated_at # seen.updated_at
            \/ orders[seen.id] # seen.order[1])
           => /\ orders' = orders
              /\ account' = account
              /\ ledger' = ledger)]_vars


\* C21: no product carries a fixed discount_price that is positive and not
\* below its base price.
C21_DiscountPriceBelowBase ==
    \A i \in ProductIds :
        (products[i].discount_price # NULL /\ products[i].discount_price > 0)
            => products[i].discount_price < products[i].price


\* C22: no cart has two lines for the same product with the same selected
\* variant.
C22_OneLinePerCombination ==
    \A u \in Procs :
        \A product \in ProductIds, option \in OptionIds \cup {NULL} :
            Cardinality(MatchingLines(cartItems[u], product, option)) <= 1


\* Whether a non-zero discount of a row is active at time t: t is not before
\* the start nor after the end of the window, where set, and the row has a
\* positive percentage or a positive fixed price.
C23_Expected(row, t) ==
    LET before == row.discount_start_date # NULL /\ t < row.discount_start_date
        after == row.discount_end_date # NULL /\ t > row.discount_end_date
    IN  /\ ~before
        /\ ~after
        /\ \/ row.discount_percentage > 0
           \/ (row.discount_price # NULL /\ row.discount_price > 0)

\* C23: the is_on_sale handed out for a product is true exactly when a
\* non-zero discount of the product is active at that time, which is exactly
\* when the price handed out with it is a discounted one.
C23_IsOnSaleIffDiscountActive ==
    quoted.product \in ProductIds =>
        /\ quoted.is_on_sale = C23_Expected(products[quoted.product], quoted.at)
        /\ quoted.is_on_sale =
              (quoted.price # C9_Expected(
                  WithDiscount(products[quoted.product], Neutral), quoted.at))


\* C24: the price handed out for a variant that has a discount of its own,
\* a positive fixed price or else a positive percentage, is that fixed price
\* or the variant's price less that percentage, whatever the parent carries;
\* for a variant with no discount of its own it is the variant's price, or
\* that price less the parent's percentage.
C24_VariantPriceNoStacking ==
    quoted.option # NULL =>
        LET self == options[quoted.option]
            parent == products[quoted.product]
        IN  IF self.discount_price # NULL /\ self.discount_price > 0
            THEN quoted.price = self.discount_price * 100
            ELSE IF self.discount_percentage > 0
            THEN quoted.price = self.price * (100 - self.discount_percentage)
            ELSE quoted.price \in {self.price * 100,
                                   self.price * (100 - parent.discount_percentage)}

\* A variant with 10% of its own was quoted while its parent was on sale at
\* 20%, and 10% alone came off.
C24_Witness ==
    /\ quoted.option # NULL
    /\ products[quoted.product].discount_percentage = 20
    /\ IsOnSale(products[quoted.product], quoted.at)
    /\ options[quoted.option].discount_percentage = 10
    /\ options[quoted.option].discount_price = NULL
    /\ quoted.price = options[quoted.option].price * 90


\* C25: no step awards an order whose stored status was already paid or
\* delivered before the step, and no step refunds an order whose stored
\* status was already cancelled.
C25_OnlyOnTransition ==
    [][\A id \in DOMAIN orders :
          /\ orders[id].status \in {"paid", "delivered"}
                => orders'[id].loyalty_awarded = orders[id].loyalty_awarded
          /\ orders[id].status = "cancelled"
                => orders'[id].loyalty_refunded = orders[id].loyalty_refunded]_vars


\* C26: when a promotion is activated, every product it targets, whatever
\* discount it carried before, has afterwards the promotion's percentage and
\* fixed price, the promotion's start_at or the time of the activation as
\* start date, its end_at as end date and the promotion as source, and the
\* promotion is active; and clear_discounts of a promotion leaves every
\* product whose source is another promotion as it is.
C26_ApplyReplacesDiscount ==
    /\ [][lastOp'.op = "apply" =>
            LET k == lastOp'.promo
                B == promos'[k]
                start == IF B.start_at # NULL THEN B.start_at ELSE now
            IN  /\ B.active
                /\ \A i \in ProductQueryset(promos[k], products) :
                      /\ DiscountOf(products'[i]) =
                            Discount(B.discount_percentage, B.discount_price,
                                     start, B.end_at)
                      /\ products'[i].discount_source = k]_vars
    /\ [](\A A \in DOMAIN promos : \A i \in ProductIds :
             (products[i].discount_source # NULL /\ products[i].discount_source # A)
                => ClearDiscounts(CatalogStore, A).products[i] = products[i])

\* A promotion was activated over a product that carried the discount of
\* another promotion, and the product now carries the activated one's; the
\* other promotion is still marked active.
C26_Witness ==
    /\ lastOp.op = "apply"
    /\ \E i \in lastOp.replaced :
          /\ products[i].discount_source = lastOp.promo
          /\ products[i].discount_percentage = promos[lastOp.promo].discount_percentage
          /\ products[i].discount_price = promos[lastOp.promo].discount_price
          /\ \E A \in DOMAIN promos \ {lastOp.promo} :
                /\ promos[A].active
                /\ i \in ProductQueryset(promos[A], products)


\* C27: the activation of a promotion changes exactly the products the
\* promotion's type names -- of a brand promotion the products of its brand,
\* of a category promotion the products of its category, of a manual one its
\* members, of an "all" promotion every product -- and each of them gets
\* the promotion as source; no other product is modified.
C27_TargetsByType ==
    [][lastOp'.op = "apply" =>
          LET k == lastOp'.promo
              B == promos[k]
              targets ==
                  CASE B.promo_type = "brand" ->
                          {i \in ProductIds : products[i].brand = B.brand}
                    [] B.promo_type = "category" ->
                          {i \in ProductIds : products[i].category = B.category}
                    [] B.promo_type = "manual" -> B.members
                    [] B.promo_type = "all" -> ProductIds
          IN  /\ \A i \in targets : products'[i].discount_source = k
              /\ \A i \in ProductIds \ targets : products'[i] = products[i]]_vars


\* C28: when a variant is created for a product that has none, with a size
\* other than the product's own, exactly one more variant is created with
\* it: it has the product's size, price, stock_quantity and in_stock and is
\* the product's only default; the creation of any other variant adds that
\* variant alone.
C28_BackfillOnce ==
    [][DOMAIN options' \ DOMAIN options # {} =>
          LET new == DOMAIN options' \ DOMAIN options
              first == CHOOSE w \in new : \A x \in new : w <= x
              i == options'[first].product
              had == {w \in DOMAIN options : options[w].product = i}
              extra == new \ {first}
          IN  /\ \A w \in DOMAIN options : options'[w].product = options[w].product
              /\ IF had = {} /\ options'[first].size # products[i].size
                 THEN /\ Cardinality(extra) = 1
                      /\ \A b \in extra :
                            /\ options'[b].product = i
                            /\ options'[b].size = products[i].size
                            /\ options'[b].price = products[i].price
                            /\ options'[b].stock_quantity = products[i].stock_quantity
                            /\ options'[b].in_stock = products[i].in_stock
                            /\ {w \in DOMAIN options' :
                                  options'[w].product = i /\ options'[w].is_default} = {b}
                 ELSE extra = {}]_vars

\* A product has three variants: one that was created first with another
\* size than the product's, the one created with it, of the product's size
\* and default, and one created later that brought nothing with it.
C28_Witness ==
    \E i \in ProductIds :
        LET mine == {w \in DOMAIN options : options[w].product = i}
        IN  /\ Cardinality(mine) = 3
            /\ \E a, b \in mine :
                  /\ b = a + 1
                  /\ options[a].size # products[i].size
                  /\ options[b].size = products[i].size
                  /\ options[b].stock_quantity = products[i].stock_quantity
                  /\ \A w \in mine : w >= a


\* C29: every write of a checked-out cart line for quantity q takes q off
\* the stored stock_quantity of the item sold -- the line's variant if it
\* has one, the product otherwise --, sets that item's in_stock to false
\* exactly when the new stock_quantity is 0 and leaves it as it was
\* otherwise, and takes q off the stored quantity of the cart line, which is
\* deleted when it reaches 0.
C29_StockAndCartLineReduced ==
    [][\A u \in Procs :
          (checkouts[u].pc = "writing" /\ checkouts'[u] # checkouts[u])
             => LET line == checkouts[u].order_items[checkouts[u].i]
                    q == line.quantity
                    p == line.cart_item.product
                    v == line.cart_item.option
                    before == IF v # NULL THEN options[v] ELSE products[p]
                    after == IF v # NULL THEN options'[v] ELSE products'[p]
                    left == cartItems[u][line.cart_item_id].quantity - q
                IN  /\ after.stock_quantity = before.stock_quantity - q
                    /\ after.in_stock = IF after.stock_quantity = 0 THEN FALSE
                                        ELSE before.in_stock
                    /\ cartItems'[u][line.cart_item_id].quantity =
                          IF left <= 0 THEN 0 ELSE left]_vars


\* C30: when the one checkout has ended with an order, the quantities of the
\* order items of each product add up to at most the product's stock before
\* the checkout, and the product's stock is what it was less that sum, also
\* when several items of the request are of one product.
C30_SoldWithinStock ==
    checkouts[1].pc = "done" =>
        \A i \in ProductIds :
            /\ Sold(i) <= stockAtStart[i]
            /\ products[i].stock_quantity = stockAtStart[i] - Sold(i)

====
